---- MODULE Spec2Model ----
(***************************************************************************)
(* Role Assignment Engine of the reaction-role cog (src/reactionroles.py). *)
(*                                                                         *)
(* One guild and one member are modelled.  The configuration is the cog's  *)
(* in-memory dict reaction_roles[guild_id]; the platform side is the set   *)
(* of roles that exist in the guild, the set of messages that exist, the   *)
(* components shown on them and the member's roles.                        *)
(*                                                                         *)
(* A handler of the cog is a coroutine: it runs until it awaits a call of  *)
(* the platform, the platform performs the call some time later, and the   *)
(* handler goes on from there some time after that.  Each handler is one   *)
(* action that runs it from its invocation to its first awaited call; the  *)
(* handlers that are suspended are the records of `inflight`, `land` is    *)
(* the platform performing the call a handler waits for, and `resume`      *)
(* runs the handler on to its next awaited call or to its end.  Other      *)
(* handlers run while one is suspended.  The member's reactions are not    *)
(* tracked: reaction events reach the cog in any order, since reactions    *)
(* also change while the bot is offline and rebuild clears them without a  *)
(* remove event.                                                           *)
(***************************************************************************)
EXTENDS Naturals, Integers, Sequences, FiniteSets, TLC

VARIABLES
    reaction_roles,     \* message_id -> message data (self.reaction_roles[guild_id])
    msg_order,          \* iteration order of the keys of reaction_roles[guild_id]
    file,               \* content of reaction_roles.json for the guild
    views,              \* components registered with bot.add_view
    guild_roles,        \* roles existing in the guild (guild.get_role is not None)
    channel_messages,   \* messages that exist on the platform (fetch_message succeeds)
    member_roles,       \* the roles the member has on the platform
    pending,            \* reaction-remove events caused by message.remove_reaction
    last,               \* the handler that ended last, with the member's roles before it
    file_order,         \* order of the message keys inside reaction_roles.json
    components,         \* message_id -> custom_ids of the components shown on the message
    phase,              \* "connecting" until the startup registration task has run
    shared,             \* messages whose settings["categories"] are one dict object
    commands,           \* number of configuration commands issued so far
    store,              \* the ReactionRolesStorage object and its two backends
    forbidden_roles,    \* roles the bot may not manage (add_roles/remove_roles raise Forbidden)
    inflight,           \* the handlers that are suspended at an awaited call
    has_guild,          \* guild_id in self.reaction_roles (an empty guild dict that
                        \* was loaded from the file counts as none)
    guild_table,        \* the key table of the dict reaction_roles[guild_id]
    file_parses         \* the text of reaction_roles.json is a JSON document

vars == <<reaction_roles, msg_order, file, views, guild_roles, channel_messages,
          member_roles, pending, last, file_order, components, phase, shared, commands,
          store, forbidden_roles, inflight, has_guild, guild_table, file_parses>>

\* the state of the platform
platform == <<guild_roles, channel_messages, member_roles, pending, components>>

\* the memory of the cog and of the library's view store
memory == <<reaction_roles, msg_order, file, file_order, views, shared, has_guild,
            guild_table, file_parses>>

\* what the storage object never touches
engine == <<reaction_roles, msg_order, file, views, guild_roles, channel_messages,
            member_roles, pending, last, file_order, components, phase, shared, commands,
            forbidden_roles, inflight, has_guild, guild_table, file_parses>>

----------------------------------------------------------------------------
(* Bounds of the model *)

\* at most this many bindings of the loaded configuration are not "normal"
MaxSpecial == 2
\* at most this many roles get deleted from the guild
MaxDeletedRoles == 1
\* at most this many configured messages get deleted from their channel
MaxDeletedMessages == 1
\* at most this many messages get created or cloned
MaxNewMessages == 1
\* at most this many emoji keys of the guild dict hold a bare role id
MaxBareBindings == 2
\* at most this many configuration commands are issued
MaxCommands == 3
\* at most this many handlers are suspended at the same time
MaxInflight == 2

----------------------------------------------------------------------------
(* Universe *)

Roles == {"r1", "r2", "r3"}
Emojis == {"e1", "e2"}
Modes == {"normal", "unique", "exclusive"}
MessageIds == {"m1", "m2", "m3"}
CategoryIds == {"c1", "c2"}

\* Python None / an unset optional: the empty set; a set value n is {n}
None == {}

\* settings["required_roles"] is None or a list of role ids: the list, and
\* the empty list for None (both are falsy, and a list the code creates gets
\* its first role at once)
NoRoles == <<>>

RECURSIVE SeqToSet(_)
SeqToSet(s) == IF s = <<>> THEN {} ELSE {Head(s)} \cup SeqToSet(Tail(s))

\* the elements of a sequence that are in a set, in their order
RECURSIVE OrderWithin(_, _)
OrderWithin(order, keys) ==
    IF order = <<>> THEN <<>>
    ELSE IF Head(order) \in keys THEN <<Head(order)>> \o OrderWithin(Tail(order), keys)
    ELSE OrderWithin(Tail(order), keys)

RECURSIVE SumOver(_, _)
SumOver(S, f) ==
    IF S = {} THEN 0
    ELSE LET x == CHOOSE x \in S : TRUE IN f[x] + SumOver(S \ {x}, f)

----------------------------------------------------------------------------
(* Configuration documents (data structure of src/reactionroles.py:13-29,  *)
(* menu documents as written by create_menu / add_category / add_menu_role)*)
(* A Python dict iterates in insertion order: `keys` is the order of the   *)
(* emoji keys of a message entry and `cats` the order of the keys of       *)
(* settings["categories"].  The order is that of the dict's key table      *)
(* (CPython 3.11, Objects/dictobject.c): an array of entries to which a    *)
(* new key is appended, in which `del` leaves a hole, and which is rebuilt *)
(* without its holes when a new key finds no room left.  `table` and       *)
(* `ctable` are the key tables of the entry and of settings["categories"]. *)

\* the place of a deleted key in a key table
Hole == ""

\* a key table: the array of entries behind the fixed first keys of the
\* dict, and the number of entries (these first keys included) the table
\* has room for
Table(slots, cap) == [slots |-> slots, cap |-> cap]

\* the keys of a slot array, in order
RECURSIVE Live(_)
Live(slots) ==
    IF slots = <<>> THEN <<>>
    ELSE IF Head(slots) = Hole THEN Live(Tail(slots))
    ELSE <<Head(slots)>> \o Live(Tail(slots))

\* the smallest power of two from `size` on that is greater than n
RECURSIVE PowerAbove(_, _)
PowerAbove(size, n) == IF size > n THEN size ELSE PowerAbove(2 * size, n)

\* the entries a table made for a dict of `used` keys has room for:
\* calculate_log2_keysize(used * 3) slots (at least 8), USABLE_FRACTION of
\* them usable
Usable(used) ==
    LET m == 3 * used
        minsize == (IF (m \div 8) % 2 = 0 THEN m + 8 ELSE m) - 1
    IN (2 * PowerAbove(8, minsize)) \div 3

\* the table of an empty dict
EmptyTable == Table(<<>>, Usable(0))

\* d[k] = v on the table of a dict with `first` fixed first keys: a key the
\* dict has keeps its place; a new key is appended, after the table was
\* rebuilt without its holes when it had no room left (insertion_resize)
TabInsert(t, first, k) ==
    IF \E i \in 1..Len(t.slots) : t.slots[i] = k THEN t
    ELSE IF first + Len(t.slots) >= t.cap
    THEN Table(Append(Live(t.slots), k), Usable(first + Len(Live(t.slots))))
    ELSE Table(Append(t.slots, k), t.cap)

\* del d[k]: the entry of the key becomes a hole
TabDelete(t, k) ==
    Table([i \in 1..Len(t.slots) |-> IF t.slots[i] = k THEN Hole ELSE t.slots[i]], t.cap)

\* the table of a dict that was built key by key (a dict display, json.load)
RECURSIVE FreshTable(_, _)
FreshTable(keys, first) ==
    IF keys = <<>> THEN EmptyTable
    ELSE TabInsert(FreshTable(SubSeq(keys, 1, Len(keys) - 1), first), first,
                   keys[Len(keys)])

\* one emoji entry {"role_id": ..., "mode": ...}
Binding(role_id, mode) == [role_id |-> role_id, mode |-> mode]

\* insertion order of the emoji keys and of the categories in the documents
\* the model loads
KeyOrder == <<"e1", "e2">>
CatOrder == <<"c1", "c2">>

\* settings["embed_data"] as create writes it (title and description are
\* the ones of the command; the description goes the way of the title)
CreatedEmbed == [title |-> "created", color |-> "blue"]

\* a message entry: "settings" plus the emoji keys.  "settings" is the
\* first key of the entry when it has one.  req_of and embed_of name the
\* list object that required_roles is and the dict object that embed_data
\* is (by the message they were made for): the settings of a clone are a
\* shallow copy and hold the objects of the original
MessageData(style, required_roles, max_roles, triggers, categories) ==
    [style |-> style, required_roles |-> required_roles, req_of |-> "",
     max_roles |-> max_roles, embed |-> CreatedEmbed, embed_of |-> "",
     triggers |-> triggers, keys |-> OrderWithin(KeyOrder, DOMAIN triggers),
     table |-> FreshTable(OrderWithin(KeyOrder, DOMAIN triggers),
                          IF style = "" THEN 0 ELSE 1),
     categories |-> categories, cats |-> OrderWithin(CatOrder, DOMAIN categories),
     ctable |-> FreshTable(OrderWithin(CatOrder, DOMAIN categories), 0)]

NoTriggers == [e \in {} |-> Binding("r1", "normal")]
NoCategories == [c \in {} |-> [roles |-> <<>>]]

\* d[k] = v on a dict
WithKey(d, k, v) == [x \in DOMAIN d \cup {k} |-> IF x = k THEN v ELSE d[x]]

\* del d[k]
WithoutKey(d, k) == [x \in DOMAIN d \ {k} |-> d[x]]

\* key order of a dict after d[k] = v: a new key goes to the end
OrderWith(order, d, k) == IF k \in DOMAIN d THEN order ELSE Append(order, k)

\* the fixed first keys of an entry: "settings"
First(md) == IF md.style = "" THEN 0 ELSE 1

\* entry[emoji] = value
SetTrigger(md, emoji, value) ==
    [md EXCEPT !.triggers = WithKey(md.triggers, emoji, value),
               !.keys = OrderWith(md.keys, md.triggers, emoji),
               !.table = TabInsert(md.table, First(md), emoji)]

\* del entry[emoji]
DelTrigger(md, emoji) ==
    [md EXCEPT !.triggers = WithoutKey(md.triggers, emoji),
               !.keys = OrderWithin(md.keys, DOMAIN md.triggers \ {emoji}),
               !.table = TabDelete(md.table, emoji)]

\* categories[category_id] = value
SetCategory(md, category_id, value) ==
    [md EXCEPT !.categories = WithKey(md.categories, category_id, value),
               !.cats = OrderWith(md.cats, md.categories, category_id),
               !.ctable = TabInsert(md.ctable, 0, category_id)]

\* del categories[category_id]
DelCategory(md, category_id) ==
    [md EXCEPT !.categories = WithoutKey(md.categories, category_id),
               !.cats = OrderWithin(md.cats, DOMAIN md.categories \ {category_id}),
               !.ctable = TabDelete(md.ctable, category_id)]

\* json.dump and json.load of the guild dict: every dict of the document is
\* built anew key by key, and every list and dict is an object of its own
Dump(cfg) ==
    [m \in DOMAIN cfg |->
        [cfg[m] EXCEPT !.table = FreshTable(cfg[m].keys, First(cfg[m])),
                       !.ctable = FreshTable(cfg[m].cats, 0),
                       !.req_of = IF cfg[m].required_roles = NoRoles THEN "" ELSE m,
                       !.embed_of = IF cfg[m].style = "" THEN "" ELSE m]]

\* the binding slots of the configurations the model loads
Slots == {<<"m1", "e1">>, <<"m1", "e2">>, <<"m2", "e1">>, <<"m2", "e2">>,
          <<"m3", "r3">>, <<"m3", "r1">>, <<"m3", "r2">>}

ModeAssignments ==
    {f \in [Slots -> Modes] : Cardinality({s \in Slots : f[s] # "normal"}) <= MaxSpecial}

AllNormal == [s \in Slots |-> "normal"]

Special(f) == {s \in Slots : f[s] # "normal"}

\* settings variants: at most one message carries a gate
GateKinds == {"cap0", "cap1", "cap2", "req"}
Gates == {[message_id |-> "none", kind |-> "none"]}
         \cup [message_id : MessageIds, kind : GateKinds]

\* the role a gated message requires (a role the message itself does not
\* need to hand out first)
RequiredOf == [m1 |-> "r3", m2 |-> "r1", m3 |-> "r2"]

\* settings["required_roles"] of message m in the loaded file: the list an
\* earlier /reaction settings left there, or none
GateRequired(g, m) ==
    IF g.message_id = m /\ g.kind = "req" THEN <<RequiredOf[m]>> ELSE NoRoles

\* settings["max_roles"] of message m in the loaded file: the integer an
\* earlier /reaction settings left there, or None
GateMaxRoles(g, m) ==
    IF g.message_id = m /\ g.kind = "cap0" THEN {0}
    ELSE IF g.message_id = m /\ g.kind = "cap1" THEN {1}
    ELSE IF g.message_id = m /\ g.kind = "cap2" THEN {2}
    ELSE None

\* the guild document: m1 reaction style, m2 button style, m3 menu style
LoadedConfig(f, g) ==
  Dump(
    [m \in MessageIds |->
        CASE m = "m1" ->
               MessageData("reactions", GateRequired(g, m), GateMaxRoles(g, m),
                   [e \in Emojis |-> IF e = "e1" THEN Binding("r1", f[<<"m1", "e1">>])
                                                 ELSE Binding("r2", f[<<"m1", "e2">>])],
                   NoCategories)
          [] m = "m2" ->
               MessageData("buttons", GateRequired(g, m), GateMaxRoles(g, m),
                   [e \in Emojis |-> IF e = "e1" THEN Binding("r2", f[<<"m2", "e1">>])
                                                 ELSE Binding("r3", f[<<"m2", "e2">>])],
                   NoCategories)
          [] OTHER ->
               MessageData("menu", GateRequired(g, m), GateMaxRoles(g, m),
                   NoTriggers,
                   [c \in CategoryIds |->
                       IF c = "c1"
                       THEN [roles |-> <<Binding("r3", f[<<"m3", "r3">>]),
                                         Binding("r1", f[<<"m3", "r1">>])>>]
                       ELSE [roles |-> <<Binding("r2", f[<<"m3", "r2">>])>>]])])

NoGate == [message_id |-> "none", kind |-> "none"]

\* the loaded configurations: any modes when no message is gated; with a
\* gated message, the modes of that message vary
ConfigFamily ==
    {fg \in ModeAssignments \X Gates :
        fg[2].message_id # "none" => \A s \in Special(fg[1]) : s[1] = fg[2].message_id}

\* key orders of the guild dict the model loads; the order is only read by
\* the exclusive walk of the menu callback
LoadedOrders(f) ==
    IF \E s \in Slots : s[1] = "m3" /\ f[s] = "exclusive"
    THEN {<<"m1", "m2", "m3">>, <<"m3", "m1", "m2">>}
    ELSE {<<"m1", "m2", "m3">>}

----------------------------------------------------------------------------
(* Helpers over the configuration *)

\* guild.get_role(int(role_id)) returns a role
RoleExists(role_id) == role_id \in guild_roles

\* an emoji entry of the documented form {"role_id": ..., "mode": ...}; the
\* entry written by add_reaction_role is a bare role id instead
IsEntry(b) == b.mode \in Modes

\* the entry has a "settings" key
HasSettings(md) == md.style # ""

\* message_data.get("settings", {}).get("style", "reactions")
StyleOf(md) == IF HasSettings(md) THEN md.style ELSE "reactions"

\* `if settings["required_roles"]:` : neither None nor an empty list
TruthyList(l) == l # <<>>

\* `if settings["max_roles"]:` : neither None nor 0
Truthy(opt) == opt # {} /\ 0 \notin opt

ValueOf(opt) == CHOOSE n \in opt : TRUE

\* role ids bound by the emoji keys of a message entry
FlatRoles(md) == {md.triggers[e].role_id : e \in DOMAIN md.triggers}

\* role ids bound inside one category
CategoryRoles(md, c) == {b.role_id : b \in SeqToSet(md.categories[c].roles)}

\* role ids bound inside the categories of a message entry
MenuRoles(md) == UNION {CategoryRoles(md, c) : c \in DOMAIN md.categories}

\* every role id bound by any trigger of one message entry
BoundRoles(md) == FlatRoles(md) \cup MenuRoles(md)

\* every role id bound by any trigger of any message of the guild
GuildBoundRoles(cfg) == UNION {BoundRoles(cfg[m]) : m \in DOMAIN cfg}

\* the cap check's role_count: one per emoji entry whose role the member
\* holds; a value that is not a dict (a bare role id) is passed over
RoleCount(md, held) ==
    Cardinality({e \in DOMAIN md.triggers :
                    /\ IsEntry(md.triggers[e])
                    /\ RoleExists(md.triggers[e].role_id)
                    /\ md.triggers[e].role_id \in held})

\* the required-role check's has_required_role
HasRequiredRole(md, held) ==
    \E i \in 1..Len(md.required_roles) :
        RoleExists(md.required_roles[i]) /\ md.required_roles[i] \in held

\* member.add_roles(role) and member.remove_roles(role) succeed: the role is
\* below the bot's highest role
Manageable(role_id) == role_id \notin forbidden_roles

\* number of bare role ids in the guild dict
BareCount(cfg) ==
    SumOver(DOMAIN cfg,
            [m \in DOMAIN cfg |->
                Cardinality({e \in DOMAIN cfg[m].triggers : ~IsEntry(cfg[m].triggers[e])})])

----------------------------------------------------------------------------
(* Dispatch Registrar: components built from the configuration *)

\* RoleButton.__init__: the button keeps role_id, message_id and mode
RoleButton(emoji, role_id, message_id, mode) ==
    [kind |-> "button", message_id |-> message_id, emoji |-> emoji,
     role_id |-> role_id, mode |-> mode,
     category_id |-> "", options |-> {}, max_values |-> 0,
     custom_id |-> <<"role", role_id, message_id>>]

\* RoleSelectMenu.__init__: one option per role of the category; single
\* select when any role of the category is "unique"
RoleSelectMenu(message_id, category_id, roles) ==
    LET is_unique == \E i \in 1..Len(roles) : roles[i].mode = "unique"
    IN [kind |-> "menu", message_id |-> message_id, emoji |-> "",
        role_id |-> "", mode |-> "",
        category_id |-> category_id,
        options |-> {roles[i].role_id : i \in 1..Len(roles)},
        max_values |-> IF is_unique THEN 1 ELSE Len(roles),
        custom_id |-> <<"menu", message_id, category_id>>]

\* the emoji keys that iterate after this one (dicts iterate in insertion
\* order)
RECURSIVE KeysAfter(_, _)
KeysAfter(order, emoji) ==
    IF order = <<>> THEN {}
    ELSE IF Head(order) = emoji THEN SeqToSet(Tail(order))
    ELSE KeysAfter(Tail(order), emoji)

\* the emoji keys whose button is replaced in the view store: the store
\* keeps one item per custom_id of a message, and a later button of the
\* same role has the same custom_id
ShadowedKeys(md) ==
    {e \in DOMAIN md.triggers :
        \E e2 \in KeysAfter(md.keys, e) :
            md.triggers[e2].role_id = md.triggers[e].role_id}

\* one button per emoji key (update_button_message, register_persistent_views)
ButtonItems(md, m) ==
    {RoleButton(e, md.triggers[e].role_id, m, md.triggers[e].mode) :
        e \in DOMAIN md.triggers \ ShadowedKeys(md)}

\* one select menu per category that has roles (update_menu_message,
\* register_persistent_views)
MenuItems(md, m) ==
    {RoleSelectMenu(m, c, md.categories[c].roles) :
        c \in {c \in DOMAIN md.categories : md.categories[c].roles # <<>>}}

\* the components of the view built for one message entry
MessageComponents(md, m) ==
    IF StyleOf(md) = "buttons" THEN ButtonItems(md, m)
    ELSE IF StyleOf(md) = "menu" THEN MenuItems(md, m)
    ELSE {}

\* building the buttons of the entry raises: role_data["role_id"] on a bare
\* role id is a TypeError
ButtonsRaise(md) == \E e \in DOMAIN md.triggers : ~IsEntry(md.triggers[e])

ViewRaises(md) == StyleOf(md) = "buttons" /\ ButtonsRaise(md)

\* register_persistent_views: the messages are walked in the order of the
\* guild dict and bot.add_view is called per message; the loop sits in one
\* try block, so the first entry that raises ends the walk
RECURSIVE register_persistent_views(_, _)
register_persistent_views(cfg, order) ==
    IF order = <<>> THEN {}
    ELSE IF ViewRaises(cfg[Head(order)]) THEN {}
    ELSE MessageComponents(cfg[Head(order)], Head(order))
            \cup register_persistent_views(cfg, Tail(order))

\* the custom_ids of a set of components
CustomIds(items) == {c.custom_id : c \in items}

\* the view store after a view with these items is stored: an item replaces
\* the stored item of the same message and custom_id
StoreView(stored, items) ==
    {v \in stored : ~\E i \in items : i.message_id = v.message_id
                                       /\ i.custom_id = v.custom_id}
    \cup items

----------------------------------------------------------------------------
(* save_data (src/reactionroles.py:54-60): open(data_file, 'w') empties    *)
(* the file, json.dump writes the whole in-memory dict into it; an OSError *)
(* is logged.  When open raises the file keeps its content; when the write *)
(* raises the file is left empty or cut short, which is no JSON document.  *)

\* how a save ends
SaveOutcomes == {"written", "open_failed", "write_failed"}

\* the content of a file that does not parse
Unparsable == <<>>

\* a save that never reaches the file
save_data_never(doc, old_file, io) == old_file

\* the content of the file after save_data ran on the document `doc`
save_data(doc, old_file, io) ==
    IF io = "written" THEN doc
    ELSE IF io = "open_failed" THEN old_file
    ELSE Unparsable

----------------------------------------------------------------------------
(* History of the last handler *)

NoReport == [issues_found |-> 0, issues_fixed |-> 0, missing_messages |-> 0,
             missing_roles |-> 0, initial_messages |-> 0, initial_roles |-> 0,
             removed_messages |-> 0, removed_roles |-> 0]

\* what a handler remembers of the handler that ended right before it
\* started; roles, messages: the platform when that one had started
NoPrev == [op |-> "", message_id |-> "", key |-> "", mode |-> "", outcome |-> "",
           before |-> {}, roles |-> {}, messages |-> {}]

Summary(l) == [op |-> l.op, message_id |-> l.message_id, key |-> l.key, mode |-> l.mode,
               outcome |-> l.outcome, before |-> l.before, roles |-> l.was.roles,
               messages |-> l.was.messages]

\* the configuration, the file, the view store and the platform as they
\* were when a handler started
NoWas == [cfg |-> <<>>, file |-> <<>>, parses |-> TRUE, views |-> {}, roles |-> {},
          messages |-> {}, components |-> <<>>]

Was == [cfg |-> reaction_roles, file |-> file, parses |-> file_parses, views |-> views,
        roles |-> guild_roles, messages |-> channel_messages, components |-> components]

\* op: the handler; message_id, key: its target (emoji, role id of the button
\* or category id); mode: the mode it resolved with; values: the submitted
\* menu values; outcome: the branch it returned from; before: member.roles
\* when it started; cause: for a delivered remove event, why the bot
\* withdrew the reaction; report: the counters verify and cleanup report;
\* role_id: the role it resolved; removed: the roles it took from the member
\* before its last call; overlapped: another handler was suspended while it
\* ran; prev: the handler that had ended right before this one started;
\* was: the state this one started in
Last(op, message_id, key, mode, values, outcome, before) ==
    [op |-> op, message_id |-> message_id, key |-> key, mode |-> mode, values |-> values,
     outcome |-> outcome, before |-> before, cause |-> "", report |-> NoReport,
     role_id |-> "", removed |-> {}, overlapped |-> FALSE, prev |-> NoPrev, was |-> NoWas]

\* no handler has ended with the step that led here: one is suspended, or
\* the platform performed a call
Awaiting == Last("await", "", "", "", {}, "", {})

----------------------------------------------------------------------------
(* Coroutines.  A handler that awaits a call of the platform is a record   *)
(* of `inflight`: the call, whether the platform has performed it, its     *)
(* result, and the local variables the handler reads after the await.      *)

\* the call a handler awaits.  roles: the roles of add_roles/remove_roles,
\* one request each; items: the components of the view sent with the call
Call(kind, roles, message_id, key, cause, items) ==
    [kind |-> kind, roles |-> roles, message_id |-> message_id, key |-> key,
     cause |-> cause, items |-> items]

NoCall == Call("none", <<>>, "", "", "", {})

add_roles(role_id) == Call("add_roles", <<role_id>>, "", "", "", {})
remove_roles(roles) == Call("remove_roles", roles, "", "", "", {})
remove_reaction(message_id, key, cause) ==
    Call("remove_reaction", <<>>, message_id, key, cause, {})
fetch_message(message_id) == Call("fetch_message", <<>>, message_id, "", "", {})
send(items) == Call("send", <<>>, "", "", "", items)
edit(message_id, items) == Call("edit", <<>>, message_id, "", "", items)
\* add_reaction, clear_reaction, clear_reactions: calls on a message whose
\* effect (the bot's own reactions) is not tracked
touch(message_id) == Call("touch", <<>>, message_id, "", "", {})
\* interaction.response.defer / send_message, asyncio.sleep: the handler is
\* suspended, nothing the model tracks changes
pause == Call("pause", <<>>, "", "", "", {})
\* bot.wait_until_ready() while the bot is not ready: the handler goes on
\* when the ready event is set
wait_until_ready == Call("wait_until_ready", <<>>, "", "", "", {})

\* A dict iterator (dictiter_iternextitem of CPython): `pos` is its index
\* into the entries of the key table, `left` the number of items it still
\* expects, `used` the size of the dict when the iterator was made; `det`:
\* the dict is no longer part of the configuration and `table` is its key
\* table
NoIter == [on |-> FALSE, pos |-> 0, left |-> 0, used |-> 0, det |-> FALSE,
           table |-> EmptyTable]

\* iter(d.items()) on the dict with key table t
Iter(t) == [on |-> TRUE, pos |-> 0, left |-> Len(Live(t.slots)),
            used |-> Len(Live(t.slots)), det |-> FALSE, table |-> EmptyTable]

\* the index of the first entry behind index i that is no hole, 0 when
\* there is none
RECURSIVE NextEntry(_, _)
NextEntry(slots, i) ==
    IF i >= Len(slots) THEN 0
    ELSE IF slots[i + 1] # Hole THEN i + 1
    ELSE NextEntry(slots, i + 1)

\* what next() on the iterator does, t being the key table of its dict:
\* RuntimeError "dictionary changed size during iteration" when the dict
\* has not the size it had, StopIteration behind the last entry,
\* RuntimeError "dictionary keys changed during iteration" at an entry the
\* iterator did not expect, or the next item
IterNext(it, t) ==
    IF Len(Live(t.slots)) # it.used THEN "changed_size"
    ELSE IF NextEntry(t.slots, it.pos) = 0 THEN "stop"
    ELSE IF it.left = 0 THEN "keys_changed"
    ELSE "item"

\* the key of the item next() returns
IterKey(it, t) == t.slots[NextEntry(t.slots, it.pos)]

\* the iterator after next() returned an item
IterAdvance(it, t) == [it EXCEPT !.pos = NextEntry(t.slots, it.pos), !.left = @ - 1]

\* A list iterator: `items` is the list as it is now, `i` the index of the
\* item next() returns; `det`: the list is no longer part of the
\* configuration
NoList == [on |-> FALSE, items |-> <<>>, i |-> 1, det |-> FALSE]

ListIter(items) == [on |-> TRUE, items |-> items, i |-> 1, det |-> FALSE]

\* the record of a handler.  id tells handlers with the same arguments
\* apart; op, message_id, key, role_id, mode, values, cause: the handler and
\* its arguments; pc: the await it is suspended at; seen: member.roles as
\* the handler's Member object has it; before: the member's roles when the
\* handler started; overlapped: another handler has been suspended at the
\* same time; git, eit, cit: the iterators over the guild dict, over the
\* entry of message `cur` and over its categories; item: the key of the
\* item a loop is at; cat, lst: the category whose role list is walked and
\* the list with the index reached in it; snap: the part of role_data_map
\* not visited; rest: the part of a snapshot list(...) not visited;
\* refs: the entries the handler still refers to that are no longer in the
\* guild dict; view: the components of the view it built; new: the id of
\* the message it sent; report: its counters; removed: the roles it removed;
\* prev, was: the handler that ended before it started and the state then
Task(id, op, message_id, key, role_id, mode, values, cause, held, overlapped) ==
    [id |-> id, op |-> op, message_id |-> message_id, key |-> key, role_id |-> role_id,
     mode |-> mode, values |-> values, cause |-> cause,
     pc |-> "start", call |-> NoCall, landed |-> FALSE, ret |-> "",
     seen |-> held, before |-> held, overlapped |-> overlapped,
     git |-> NoIter, eit |-> NoIter, cit |-> NoIter, cur |-> "", item |-> "",
     cat |-> "", lst |-> NoList, snap |-> <<>>,
     rest |-> <<>>, refs |-> <<>>, view |-> {}, new |-> "", report |-> NoReport,
     removed |-> {}, style |-> "", found |-> FALSE, prev |-> NoPrev, was |-> NoWas]

\* the smallest id no suspended handler has
FreeId == CHOOSE i \in 1..(MaxInflight + 1) :
              /\ \A x \in inflight : x.id # i
              /\ \A j \in 1..(i - 1) : \E x \in inflight : x.id = j

\* the handler awaits this call at this place
Await(x, pc, call) ==
    [x EXCEPT !.pc = pc, !.call = call, !.landed = (call.kind = "pause"), !.ret = ""]

\* the entry of message m as the handler refers to it: the object it took
\* from the guild dict, which may have left the dict since
Deref(x, cfg, m) == IF m \in DOMAIN x.refs THEN x.refs[m] ELSE cfg[m]

\* the key tables of the dicts the iterators of a handler walk: the guild
\* dict, the entry of message `cur`, and its categories
GuildTable(x) == IF x.git.det THEN x.git.table ELSE guild_table
EntryTable(x) == Deref(x, reaction_roles, x.cur).table
CatTable(x) == Deref(x, reaction_roles, x.cur).ctable

\* the messages whose entry object a suspended handler refers to: the entry
\* its iterator walks, the entry it was called for, and the entries of its
\* snapshot of the guild dict
HeldEntries(x) ==
    (IF x.cur # "" THEN {x.cur} ELSE {})
    \cup (IF x.op \in {"reaction_add", "button", "menu", "clone"} THEN {x.message_id} ELSE {})
    \cup (IF x.op \in {"verify", "rebuild"} THEN SeqToSet(x.rest) ELSE {})

\* the entry that shares its categories dict with the entry of message m
\* and is in the guild dict before and after a step
Peers(m, cfg, cfg2) ==
    IF m \in shared THEN (shared \ {m}) \cap DOMAIN cfg \cap DOMAIN cfg2 ELSE {}

\* A suspended handler after the memory of the cog changed from cfg to cfg2
\* under it, `repl` being the messages whose entry object was replaced by a
\* new one and `dropped` telling that the guild dict itself was deleted
\* from self.reaction_roles (every key of it had been deleted before): its
\* iterators stay on the dicts they walk, the role list it walks follows
\* the list, and an entry that left the guild dict is kept as the object
\* the handler holds.  The categories dict of such an entry still changes
\* when an entry that shares it is changed.
Track(x, cfg, cfg2, repl, dropped) ==
    LET left == {m \in HeldEntries(x) : /\ m \in DOMAIN cfg
                                        /\ m \notin DOMAIN cfg2 \/ m \in repl
                                        /\ m \notin DOMAIN x.refs}
        kept(m) == LET md == IF m \in DOMAIN x.refs THEN x.refs[m] ELSE cfg[m]
                       p == Peers(m, cfg, cfg2)
                   IN IF p = {} THEN md
                      ELSE LET q == CHOOSE q \in p : TRUE
                           IN [md EXCEPT !.categories = cfg2[q].categories,
                                         !.cats = cfg2[q].cats,
                                         !.ctable = cfg2[q].ctable]
        refs == [m \in DOMAIN x.refs \cup left |-> kept(m)]
        now(m) == IF m \in DOMAIN refs THEN refs[m] ELSE cfg2[m]
        held == x.cur # "" /\ (x.cur \in DOMAIN x.refs \/ x.cur \in DOMAIN cfg)
        git == IF x.git.on /\ ~x.git.det /\ dropped
               THEN [x.git EXCEPT !.det = TRUE,
                                  !.table = Table([i \in 1..Len(guild_table.slots) |-> Hole],
                                                  guild_table.cap)]
               ELSE x.git
        lst == IF held /\ x.lst.on /\ ~x.lst.det
               THEN IF x.cat \in DOMAIN now(x.cur).categories
                    THEN [x.lst EXCEPT !.items = now(x.cur).categories[x.cat].roles]
                    ELSE [x.lst EXCEPT !.det = TRUE]
               ELSE x.lst
    IN [x EXCEPT !.refs = refs, !.git = git, !.lst = lst]

\* the other suspended handlers after a step of the handler with id `id`
TrackAll(flights, id, cfg, cfg2, repl, dropped) ==
    {Track(y, cfg, cfg2, repl, dropped) : y \in {z \in flights : z.id # id}}

----------------------------------------------------------------------------
(* The platform performs the call a handler awaits *)

\* ids the platform gives to messages the bot sends, in this order
NewMessageIds == {"m4", "m5"}

\* the id of the next message the bot sends
NewMessageId(used) == IF "m4" \notin used THEN "m4" ELSE "m5"

\* the messages the bot has sent since the configuration was loaded
SentMessages == (channel_messages \cup DOMAIN reaction_roles) \ MessageIds

\* the commands that have a message to send and have not sent it
Sending == {x \in inflight : /\ x.op \in {"create", "create_menu", "clone"}
                             /\ x.new = ""
                             /\ ~(x.call.kind = "send" /\ x.landed)}

\* One request of the awaited call is performed.  add_roles / remove_roles
\* send one request per role: a role that was deleted answers NotFound, a
\* role the bot may not manage Forbidden, and the call raises there.
\* remove_reaction withdraws the member's reaction, which comes back as a
\* remove event when the member had reacted (`present`); the reaction of a
\* member who was just rejected is there.  fetch_message, edit and the calls
\* on a message's reactions answer NotFound when the message is gone.
\* wait_until_ready returns once the bot is ready.
land(x) ==
    /\ x \in inflight
    /\ ~x.landed
    /\ LET c == x.call
           done(ret) == inflight' = (inflight \ {x}) \cup {[x EXCEPT !.landed = TRUE,
                                                                     !.ret = ret]}
       IN CASE c.kind \in {"add_roles", "remove_roles"} ->
                 LET role_id == Head(c.roles)
                 IN IF ~RoleExists(role_id)
                    THEN done("not_found") /\ UNCHANGED platform
                    ELSE IF ~Manageable(role_id)
                    THEN done("forbidden") /\ UNCHANGED platform
                    ELSE /\ member_roles' = IF c.kind = "add_roles"
                                            THEN member_roles \cup {role_id}
                                            ELSE member_roles \ {role_id}
                         /\ IF Len(c.roles) = 1
                            THEN done("ok")
                            ELSE inflight' = (inflight \ {x}) \cup
                                     {[x EXCEPT !.call.roles = Tail(c.roles)]}
                         /\ UNCHANGED <<guild_roles, channel_messages, pending, components>>
            [] c.kind = "remove_reaction" ->
                 IF c.message_id \notin channel_messages
                 THEN done("not_found") /\ UNCHANGED platform
                 ELSE /\ \E present \in BOOLEAN :
                            /\ c.cause = "rejected" => present
                            /\ pending' = IF present
                                          THEN pending \cup {<<c.message_id, c.key, c.cause>>}
                                          ELSE pending
                      /\ done("ok")
                      /\ UNCHANGED <<guild_roles, channel_messages, member_roles, components>>
            [] c.kind \in {"fetch_message", "touch"} ->
                 /\ done(IF c.message_id \in channel_messages THEN "ok" ELSE "not_found")
                 /\ UNCHANGED platform
            [] c.kind = "send" ->
                 LET new == NewMessageId(channel_messages \cup DOMAIN reaction_roles)
                 IN /\ channel_messages' = channel_messages \cup {new}
                    /\ components' = WithKey(components, new, CustomIds(c.items))
                    /\ done(new)
                    /\ UNCHANGED <<guild_roles, member_roles, pending>>
            [] c.kind = "wait_until_ready" ->
                 /\ phase # "connecting"
                 /\ done("ok")
                 /\ UNCHANGED platform
            [] c.kind = "edit" ->
                 IF c.message_id \notin channel_messages
                 THEN done("not_found") /\ UNCHANGED platform
                 ELSE /\ components' = WithKey(components, c.message_id, CustomIds(c.items))
                      /\ done("ok")
                      /\ UNCHANGED <<guild_roles, channel_messages, member_roles, pending>>
    /\ last' = Awaiting
    /\ UNCHANGED <<memory, phase, commands, store, forbidden_roles>>

----------------------------------------------------------------------------
(* A handler runs from where it is to its next awaited call or to its end. *)
(* What it does there is one record: whether it ended, the handler record  *)
(* if it is suspended again, the memory it leaves, and its history entry.  *)

\* the memory of the cog as it is
Mem == [cfg |-> reaction_roles, order |-> msg_order, file |-> file,
        forder |-> file_order, views |-> views, shared |-> shared, known |-> has_guild,
        table |-> guild_table, parses |-> file_parses]

\* the text of the file is a JSON document after save_data ran
SavedParses(old, io) == IF io = "written" THEN TRUE ELSE IF io = "open_failed" THEN old
                        ELSE FALSE

\* await self.save_data(): the coroutine has no await inside, so it runs at
\* once; io: how the save ends
Saved(mem, io) ==
    [mem EXCEPT !.file = save_data(Dump(mem.cfg), mem.file, io),
                !.forder = save_data(mem.order, mem.forder, io),
                !.parses = SavedParses(mem.parses, io)]

\* del self.reaction_roles[guild_id][message_id] for the messages `gone`
RECURSIVE TabDeleteAll(_, _)
TabDeleteAll(t, gone) ==
    IF gone = {} THEN t
    ELSE LET m == CHOOSE m \in gone : TRUE IN TabDeleteAll(TabDelete(t, m), gone \ {m})

WithoutEntries(mem, gone) ==
    [mem EXCEPT !.cfg = [m \in DOMAIN mem.cfg \ gone |-> mem.cfg[m]],
                !.order = OrderWithin(mem.order, DOMAIN mem.cfg \ gone),
                !.table = TabDeleteAll(mem.table, gone)]

\* the handler is suspended at a call
Suspend(x) == [done |-> FALSE, task |-> x, mem |-> Mem, last |-> Awaiting, repl |-> {}]

\* the handler ends
Return(x, outcome, cause) ==
    [done |-> TRUE, task |-> x, mem |-> Mem,
     last |-> [op |-> x.op, message_id |-> x.message_id, key |-> x.key, mode |-> x.mode,
               values |-> x.values, outcome |-> outcome, before |-> x.before,
               cause |-> cause, report |-> x.report, role_id |-> x.role_id,
               removed |-> x.removed, overlapped |-> x.overlapped, prev |-> x.prev,
               was |-> x.was],
     repl |-> {}]

\* the same with the memory the handler wrote
Wrote(res, mem) == [res EXCEPT !.mem = mem]

\* the same with the entries of these messages replaced by new objects
Replaced(res, repl) == [res EXCEPT !.repl = repl]

\* The step of the handler with record x takes effect: the memory is what
\* the handler left, the handler is suspended again or gone, and the other
\* suspended handlers find the dicts they iterate changed under them.
\* `begun`: the step is the start of the handler.
Apply(x, res, begun) ==
    /\ reaction_roles' = res.mem.cfg
    /\ msg_order' = res.mem.order
    /\ file' = res.mem.file
    /\ file_order' = res.mem.forder
    /\ views' = res.mem.views
    /\ shared' = res.mem.shared
    /\ has_guild' = res.mem.known
    /\ guild_table' = res.mem.table
    /\ file_parses' = res.mem.parses
    /\ last' = res.last
    /\ LET others == IF begun THEN {[y EXCEPT !.overlapped = TRUE] : y \in inflight}
                     ELSE inflight
           tracked == TrackAll(others, x.id, reaction_roles, res.mem.cfg, res.repl,
                               has_guild /\ ~res.mem.known)
       IN inflight' = IF res.done THEN tracked ELSE tracked \cup {res.task}
    /\ UNCHANGED <<phase, store, forbidden_roles>>

\* a handler can start: fewer than MaxInflight are suspended
CanStart == Cardinality(inflight) < MaxInflight

\* the handlers of a member's reactions, clicks and submissions
Activations == {"reaction_add", "reaction_remove", "reaction_remove_event", "button", "menu"}

\* the record of a handler that starts now.  A command keeps the state it
\* started in; the handler of a normal-mode trigger and the cleanup keep the
\* handler that ended right before when that one had the same target
Start(op, message_id, key, role_id, mode, values, cause) ==
    [Task(FreeId, op, message_id, key, role_id, mode, values, cause, member_roles,
          inflight # {})
        EXCEPT !.prev = IF /\ last.op = op /\ last.message_id = message_id /\ last.key = key
                           /\ (last.mode = "normal" \/ last.op = "cleanup")
                        THEN Summary(last) ELSE NoPrev,
               !.was = IF op \in Activations THEN NoWas ELSE Was]

\* member.roles as the handler reads it after an await: the Member object
\* has been brought up to date by then, or not yet.  Only the listeners and
\* callbacks of a member read it.
Refresh(x, fresh) ==
    IF fresh /\ x.op \in {"reaction_add", "button", "menu"}
    THEN [x EXCEPT !.seen = member_roles]
    ELSE x

----------------------------------------------------------------------------
(* on_raw_reaction_add (src/reactionroles.py:469-585) *)

\* a loop that never stops at a removal
UniqueLoopNoRemoval(x) == Suspend(Await(x, "add", add_roles(x.role_id)))

\* The loop of the "unique" branch over the items of the entry, from where
\* its iterator is: it stops at the removal of the first role of another
\* key that exists and that the member holds, goes on to add_roles when the
\* items are exhausted, and ends the handler with the RuntimeError of the
\* iterator or the TypeError of a bare role id.
RECURSIVE UniqueLoop(_)
UniqueLoop(x) ==
    LET step == IterNext(x.eit, EntryTable(x))
    IN IF step \in {"changed_size", "keys_changed"} THEN Return(x, "error", "dict_changed")
       ELSE IF step = "stop" THEN Suspend(Await(x, "add", add_roles(x.role_id)))
       ELSE LET k == IterKey(x.eit, EntryTable(x))
                other == Deref(x, reaction_roles, x.cur).triggers[k]
                y == [x EXCEPT !.eit = IterAdvance(@, EntryTable(x))]
            IN IF k = x.key THEN UniqueLoop(y)
               ELSE IF ~IsEntry(other) THEN Return(y, "error", "type_error")
               ELSE IF RoleExists(other.role_id) /\ other.role_id \in x.seen
               THEN Suspend(Await([y EXCEPT !.item = k], "unique_remove",
                                  remove_roles(<<other.role_id>>)))
               ELSE UniqueLoop(y)

\* The loop of the "exclusive" branch over the guild dict and, inside, over
\* the items of each entry: it stops at the removal of every role that
\* exists and that the member holds, the activated key excepted.
RECURSIVE ExclusiveLoop(_)
ExclusiveLoop(x) ==
    IF x.cur = ""
    THEN LET step == IterNext(x.git, GuildTable(x))
         IN IF step \in {"changed_size", "keys_changed"}
            THEN Return(x, "error", "dict_changed")
            ELSE IF step = "stop" THEN Suspend(Await(x, "add", add_roles(x.role_id)))
            ELSE LET m == IterKey(x.git, GuildTable(x))
                 IN ExclusiveLoop([x EXCEPT !.git = IterAdvance(@, GuildTable(x)), !.cur = m,
                                            !.eit = Iter(reaction_roles[m].table)])
    ELSE LET step == IterNext(x.eit, EntryTable(x))
         IN IF step \in {"changed_size", "keys_changed"}
            THEN Return(x, "error", "dict_changed")
            ELSE IF step = "stop" THEN ExclusiveLoop([x EXCEPT !.cur = "", !.eit = NoIter])
            ELSE LET k == IterKey(x.eit, EntryTable(x))
                     other == Deref(x, reaction_roles, x.cur).triggers[k]
                     y == [x EXCEPT !.eit = IterAdvance(@, EntryTable(x))]
                 IN IF ~IsEntry(other) THEN Return(y, "error", "type_error")
                    ELSE IF x.cur = x.message_id /\ k = x.key THEN ExclusiveLoop(y)
                    ELSE IF RoleExists(other.role_id) /\ other.role_id \in x.seen
                    THEN Suspend(Await(y, "exclusive_remove",
                                       remove_roles(<<other.role_id>>)))
                    ELSE ExclusiveLoop(y)

\* the handler from the event to its first awaited call.  An exception
\* ends the handler where it is raised and is logged ("error").
ReactionAddStart(x) ==
    IF ~(x.message_id \in DOMAIN reaction_roles
         /\ x.key \in DOMAIN reaction_roles[x.message_id].triggers)
    THEN Return(x, "missing_binding", "")
    ELSE LET md == reaction_roles[x.message_id]
             role_data == md.triggers[x.key]
         IN IF ~HasSettings(md) THEN Return(x, "error", "key_error")
            ELSE IF TruthyList(md.required_roles) /\ ~HasRequiredRole(md, x.seen)
            THEN Suspend(Await(x, "required_fetch", fetch_message(x.message_id)))
            ELSE IF Truthy(md.max_roles) /\ RoleCount(md, x.seen) >= ValueOf(md.max_roles)
            THEN Suspend(Await(x, "cap_fetch", fetch_message(x.message_id)))
            ELSE IF ~IsEntry(role_data) THEN Return(x, "error", "type_error")
            ELSE IF ~RoleExists(role_data.role_id) THEN Return(x, "role_missing", "")
            ELSE LET y == [x EXCEPT !.role_id = role_data.role_id]
                 IN IF role_data.mode = "unique"
                    THEN UniqueLoop([y EXCEPT !.cur = x.message_id, !.eit = Iter(md.table)])
                    ELSE IF role_data.mode = "exclusive"
                    THEN ExclusiveLoop([y EXCEPT !.git = Iter(guild_table)])
                    ELSE Suspend(Await(y, "add", add_roles(y.role_id)))

\* the handler from the await it was suspended at
ReactionAddResume(x) ==
    CASE x.pc \in {"required_fetch", "cap_fetch"} ->
           IF x.ret # "ok" THEN Return(x, "error", "platform")
           ELSE Suspend(Await(x, IF x.pc = "required_fetch" THEN "required_remove"
                                 ELSE "cap_remove",
                              remove_reaction(x.message_id, x.key, "rejected")))
      [] x.pc = "required_remove" ->
           IF x.ret # "ok" THEN Return(x, "error", "platform")
           ELSE Return(x, "missing_required_role", "")
      [] x.pc = "cap_remove" ->
           IF x.ret # "ok" THEN Return(x, "error", "platform")
           ELSE Return(x, "cap_reached", "")
      [] x.pc = "unique_remove" ->
           IF x.ret # "ok" THEN Return(x, "error", "platform")
           ELSE Suspend(Await([x EXCEPT !.removed = @ \cup {Head(x.call.roles)}],
                              "unique_fetch", fetch_message(x.message_id)))
      [] x.pc = "unique_fetch" ->
           IF x.ret # "ok" THEN Return(x, "error", "platform")
           ELSE Suspend(Await(x, "unique_withdraw",
                              remove_reaction(x.message_id, x.item, "unique")))
      [] x.pc = "unique_withdraw" -> UniqueLoop([x EXCEPT !.item = ""])
      [] x.pc = "exclusive_remove" ->
           IF x.ret # "ok" THEN Return(x, "error", "platform")
           ELSE ExclusiveLoop([x EXCEPT !.removed = @ \cup {Head(x.call.roles)}])
      [] x.pc = "add" ->
           IF x.ret # "ok" THEN Return(x, "error", "platform")
           ELSE Return(x, "applied", "")

\* The member adds reaction `emoji` to a message that has the emoji key.
on_raw_reaction_add(message_id, emoji) ==
    /\ CanStart
    /\ message_id \in channel_messages
    /\ message_id \in DOMAIN reaction_roles
    /\ emoji \in DOMAIN reaction_roles[message_id].triggers
    /\ LET x == Start("reaction_add", message_id, emoji, "",
                      reaction_roles[message_id].triggers[emoji].mode, {}, "")
       IN Apply(x, ReactionAddStart(x), TRUE)
    /\ UNCHANGED <<platform, commands>>

----------------------------------------------------------------------------
(* on_raw_reaction_remove (src/reactionroles.py:587-620) *)

\* a deselect that strips every role bound by the message
ReactionRemoveStartClearsMessage(x) ==
    IF ~(x.message_id \in DOMAIN reaction_roles
         /\ x.key \in DOMAIN reaction_roles[x.message_id].triggers)
    THEN Return(x, "missing_binding", x.cause)
    ELSE LET roles == FlatRoles(reaction_roles[x.message_id]) \cap x.seen
         IN IF roles = {} THEN Return(x, "not_held", x.cause)
            ELSE Suspend(Await(x, "remove",
                               remove_roles(OrderWithin(<<"r1", "r2", "r3">>, roles))))

\* the role of the emoji key is removed when it exists and the member holds
\* it; role_data["role_id"] on a bare role id raises and is logged
ReactionRemoveStart(x) ==
    IF ~(x.message_id \in DOMAIN reaction_roles
         /\ x.key \in DOMAIN reaction_roles[x.message_id].triggers)
    THEN Return(x, "missing_binding", x.cause)
    ELSE LET role_data == reaction_roles[x.message_id].triggers[x.key]
         IN IF ~IsEntry(role_data) THEN Return(x, "error", x.cause)
            ELSE IF RoleExists(role_data.role_id) /\ role_data.role_id \in x.seen
            THEN Suspend(Await([x EXCEPT !.role_id = role_data.role_id], "remove",
                               remove_roles(<<role_data.role_id>>)))
            ELSE Return(x, "not_held", x.cause)

ReactionRemoveResume(x) ==
    IF x.ret # "ok" THEN Return(x, "error", x.cause)
    ELSE Return([x EXCEPT !.removed = {x.role_id}], "applied", x.cause)

\* the member withdraws a reaction from a message that has the emoji key
on_raw_reaction_remove(message_id, emoji) ==
    /\ CanStart
    /\ message_id \in channel_messages
    /\ message_id \in DOMAIN reaction_roles
    /\ emoji \in DOMAIN reaction_roles[message_id].triggers
    /\ LET x == Start("reaction_remove", message_id, emoji, "", "", {}, "")
       IN Apply(x, ReactionRemoveStart(x), TRUE)
    /\ UNCHANGED <<platform, commands>>

\* a reaction event for an emoji the store does not bind on that message:
\* both listeners return at once
on_raw_reaction_unbound(op, message_id, emoji) ==
    /\ CanStart
    /\ message_id \in channel_messages
    /\ ~(message_id \in DOMAIN reaction_roles
          /\ emoji \in DOMAIN reaction_roles[message_id].triggers)
    /\ LET x == Start(op, message_id, emoji, "", "", {}, "")
       IN Apply(x, IF op = "reaction_add" THEN ReactionAddStart(x)
                   ELSE ReactionRemoveStart(x), TRUE)
    /\ UNCHANGED <<platform, commands>>

\* the remove event of a reaction the bot withdrew is delivered
on_raw_reaction_remove_event(message_id, emoji) ==
    /\ CanStart
    /\ \E w \in pending :
          /\ w[1] = message_id /\ w[2] = emoji
          /\ pending' = pending \ {w}
          /\ LET x == Start("reaction_remove_event", message_id, emoji, "", "", {}, w[3])
             IN Apply(x, ReactionRemoveStart(x), TRUE)
    /\ UNCHANGED <<guild_roles, channel_messages, member_roles, components, commands>>

----------------------------------------------------------------------------
(* RoleButton.callback (src/reactionroles.py:1730-1821).  In the handler   *)
(* record `key` is the role id the button was built with and `role_id` the *)
(* local `role` of the callback ("" for None).                             *)

\* `"role_id" in other_role_data` raises TypeError on some key of the entry
EntryRaises(md) == \E e \in DOMAIN md.triggers : ~IsEntry(md.triggers[e])

\* the loop over the guild dict raises
GuildRaises(cfg) == \E m \in DOMAIN cfg : EntryRaises(cfg[m])

\* roles_to_remove of the "unique" branch, in the order of the entry: the
\* roles of the other entries that exist and that the member holds
RECURSIVE ButtonUniqueOthers(_, _, _, _)
ButtonUniqueOthers(md, order, role_id, held) ==
    IF order = <<>> THEN <<>>
    ELSE LET k == Head(order)
             rest == ButtonUniqueOthers(md, Tail(order), role_id, held)
         IN IF /\ md.triggers[k].role_id # role_id
               /\ RoleExists(md.triggers[k].role_id)
               /\ md.triggers[k].role_id \in held
            THEN <<md.triggers[k].role_id>> \o rest
            ELSE rest

\* roles_to_remove of the "exclusive" branch, in the order of the guild dict:
\* held roles of every emoji entry of every message, except the entries of
\* this message with the button's role
RECURSIVE ButtonExclusiveOthers(_, _, _, _, _)
ButtonExclusiveOthers(cfg, order, message_id, role_id, held) ==
    IF order = <<>> THEN <<>>
    ELSE ButtonUniqueOthers(cfg[Head(order)], cfg[Head(order)].keys,
                            IF Head(order) = message_id THEN role_id ELSE "", held)
            \o ButtonExclusiveOthers(cfg, Tail(order), message_id, role_id, held)

\* The cap check's loop assigns the local `role` for every emoji entry, so
\* after it `role` is the role of the last emoji entry of the message (None
\* when that role no longer exists); without a cap, or on a message with no
\* emoji entry, `role` stays the button's own role.
ButtonRoleAfterCapCheck(md, role_id) ==
    LET entries == OrderWithin(md.keys, {e \in DOMAIN md.triggers : IsEntry(md.triggers[e])})
    IN IF Truthy(md.max_roles) /\ entries # <<>>
       THEN LET last_role_id == md.triggers[entries[Len(entries)]].role_id
            IN IF RoleExists(last_role_id) THEN {last_role_id} ELSE None
       ELSE {role_id}

\* a toggle that never removes, as the reaction handler treats its role
ButtonToggleAlwaysAdds(x) == Suspend(Await(x, "toggle", add_roles(x.role_id)))

\* the toggle (1811-1821): `role in member.roles` reads the Member object,
\* then the role is removed or added.  member.add_roles(None) raises before
\* any request; `except Exception` reports it
ButtonToggle(x) ==
    IF x.role_id = "" THEN Return(x, "toggle_failed", "")
    ELSE IF x.role_id \in x.seen
    THEN Suspend(Await(x, "toggle", remove_roles(<<x.role_id>>)))
    ELSE Suspend(Await(x, "toggle", add_roles(x.role_id)))

\* the callback from the click to its first awaited call.  An exception
\* outside the try block of the toggle leaves the callback ("error").
ButtonStart(x) ==
    IF ~RoleExists(x.key) THEN Return(x, "role_missing", "")
    ELSE IF x.message_id \notin DOMAIN reaction_roles THEN Return(x, "error", "key_error")
    ELSE LET md == reaction_roles[x.message_id]
             role == ButtonRoleAfterCapCheck(md, x.key)
             y == [x EXCEPT !.role_id = IF role = None THEN "" ELSE ValueOf(role)]
         IN IF ~HasSettings(md) THEN Return(x, "error", "key_error")
            ELSE IF TruthyList(md.required_roles) /\ ~HasRequiredRole(md, x.seen)
            THEN Return(x, "missing_required_role", "")
            ELSE IF /\ Truthy(md.max_roles)
                    /\ RoleCount(md, x.seen) >= ValueOf(md.max_roles)
                    /\ role \cap x.seen = {}
            THEN Return(y, "cap_reached", "")
            ELSE IF \/ x.mode = "unique" /\ EntryRaises(md)
                    \/ x.mode = "exclusive" /\ GuildRaises(reaction_roles)
            THEN Return(y, "error", "type_error")
            ELSE LET roles_to_remove ==
                        IF x.mode = "unique"
                        THEN ButtonUniqueOthers(md, md.keys, x.key, x.seen)
                        ELSE IF x.mode = "exclusive"
                        THEN ButtonExclusiveOthers(reaction_roles, msg_order, x.message_id,
                                                   x.key, x.seen)
                        ELSE <<>>
                 IN IF roles_to_remove # <<>>
                    THEN Suspend(Await(y, "others", remove_roles(roles_to_remove)))
                    ELSE ButtonToggle(y)

\* the callback from the await it was suspended at
ButtonResume(x) ==
    CASE x.pc = "others" ->
           \* Forbidden or NotFound leaves the callback before the toggle
           IF x.ret # "ok" THEN Return(x, "error", "platform")
           ELSE ButtonToggle(x)
      [] x.pc = "toggle" ->
           IF x.ret = "ok" THEN Return(x, "applied", "")
           ELSE IF x.ret = "forbidden" THEN Return(x, "forbidden", "")
           ELSE Return(x, "toggle_failed", "")

\* the member clicks a registered button that an existing message shows
RoleButton_callback(button) ==
    /\ CanStart
    /\ button \in views
    /\ button.kind = "button"
    /\ button.message_id \in channel_messages
    /\ button.custom_id \in components[button.message_id]
    /\ LET x == Start("button", button.message_id, button.role_id, "", button.mode, {}, "")
       IN Apply(x, ButtonStart(x), TRUE)
    /\ UNCHANGED <<platform, commands>>

----------------------------------------------------------------------------
(* RoleSelectMenu.callback (src/reactionroles.py:1868-1951).  In the       *)
(* handler record `key` is the category of the menu, `values` the          *)
(* submitted option values and `role_id` the role the loop is at.          *)

\* the role data role_data_map keeps for a role id: the last one in the list
RECURSIVE LastRoleData(_, _)
LastRoleData(roles, role_id) ==
    IF roles[Len(roles)].role_id = role_id THEN roles[Len(roles)]
    ELSE LastRoleData(SubSeq(roles, 1, Len(roles) - 1), role_id)

\* role_data_map (1884), as the sequence of its values: one per role id, in
\* the order the ids first appear in the list
RECURSIVE RoleDataMap(_, _, _)
RoleDataMap(roles, i, done) ==
    IF i > Len(roles) THEN <<>>
    ELSE IF roles[i].role_id \in done THEN RoleDataMap(roles, i + 1, done)
    ELSE <<LastRoleData(roles, roles[i].role_id)>>
            \o RoleDataMap(roles, i + 1, done \cup {roles[i].role_id})

\* The removal of the "exclusive" mode (1902-1926), from where its iterators
\* are: the messages of the guild dict in order, for a menu message its
\* categories in order and each role list by index.  It stops at the removal
\* of every role that exists and that the member holds, the selected entry
\* excepted, and at add_roles after the last message.  An entry without
\* settings is a KeyError; for a message that is no menu the branch condition
\* reads the local `emoji` before the loop below it assigns it, an
\* UnboundLocalError; an iterator whose dict changed raises RuntimeError.
RECURSIVE MenuExclusive(_)
MenuExclusive(x) ==
    IF x.lst.on
    THEN IF x.lst.i > Len(x.lst.items)
         THEN MenuExclusive([x EXCEPT !.lst = NoList, !.cat = ""])
         ELSE LET other == x.lst.items[x.lst.i]
                  y == [x EXCEPT !.lst.i = @ + 1]
              IN IF /\ x.cur = x.message_id
                    /\ x.cat = x.key
                    /\ other.role_id = x.role_id
                 THEN MenuExclusive(y)
                 ELSE IF RoleExists(other.role_id) /\ other.role_id \in x.seen
                 THEN Suspend(Await(y, "exclusive_remove", remove_roles(<<other.role_id>>)))
                 ELSE MenuExclusive(y)
    ELSE IF x.cur # ""
    THEN LET step == IterNext(x.cit, CatTable(x))
         IN IF step \in {"changed_size", "keys_changed"}
            THEN Return(x, "error", "dict_changed")
            ELSE IF step = "stop" THEN MenuExclusive([x EXCEPT !.cur = "", !.cit = NoIter])
            ELSE LET c == IterKey(x.cit, CatTable(x))
                 IN MenuExclusive([x EXCEPT
                        !.cit = IterAdvance(@, CatTable(x)), !.cat = c,
                        !.lst = ListIter(Deref(x, reaction_roles, x.cur).categories[c].roles)])
    ELSE LET step == IterNext(x.git, GuildTable(x))
         IN IF step \in {"changed_size", "keys_changed"}
            THEN Return(x, "error", "dict_changed")
            ELSE IF step = "stop" THEN Suspend(Await(x, "add", add_roles(x.role_id)))
            ELSE LET m == IterKey(x.git, GuildTable(x))
                     md == reaction_roles[m]
                 IN IF ~HasSettings(md) THEN Return(x, "error", "key_error")
                    ELSE IF md.style = "menu"
                    THEN MenuExclusive([x EXCEPT !.git = IterAdvance(@, GuildTable(x)),
                                                 !.cur = m, !.cit = Iter(md.ctable)])
                    ELSE Return(x, "error", "unbound_local")

\* the loop over role_data_map (1890-1939), from where the handler is: a
\* role that no longer exists is passed over; a selected role the member is
\* not seen to hold is added, after the removals of the exclusive mode; a
\* role that is not selected and that the member is seen to hold is removed
RECURSIVE MenuLoop(_)
MenuLoop(x) ==
    IF x.snap = <<>> THEN Return(x, "applied", "")
    ELSE LET role_data == Head(x.snap)
             role_id == role_data.role_id
             y == [x EXCEPT !.snap = Tail(@), !.role_id = role_id]
         IN IF ~RoleExists(role_id) THEN MenuLoop(y)
            ELSE IF role_id \in x.values
            THEN IF role_id \notin x.seen
                 THEN IF role_data.mode = "exclusive"
                      THEN MenuExclusive([y EXCEPT !.git = Iter(guild_table), !.cur = "",
                                                   !.cit = NoIter, !.lst = NoList])
                      ELSE Suspend(Await(y, "add", add_roles(role_id)))
                 ELSE MenuLoop(y)
            ELSE IF role_id \in x.seen
            THEN Suspend(Await(y, "remove", remove_roles(<<role_id>>)))
            ELSE MenuLoop(y)

\* the callback from the submit to its first awaited call
MenuStart(x) ==
    IF \/ x.message_id \notin DOMAIN reaction_roles
       \/ x.key \notin DOMAIN reaction_roles[x.message_id].categories
    THEN Return(x, "error", "key_error")
    ELSE MenuLoop([x EXCEPT !.snap =
            RoleDataMap(reaction_roles[x.message_id].categories[x.key].roles, 1, {})])

\* the callback from the await it was suspended at; every add_roles and
\* remove_roles sits in a try block of its own, an exception is passed over
MenuResume(x) ==
    IF x.pc = "exclusive_remove" THEN MenuExclusive(x)
    ELSE MenuLoop([x EXCEPT !.git = NoIter, !.cur = "", !.cit = NoIter, !.lst = NoList,
                            !.cat = ""])

\* the member submits the set `selected` of option values of a registered menu
RoleSelectMenu_callback(menu, selected) ==
    /\ CanStart
    /\ menu \in views
    /\ menu.kind = "menu"
    /\ menu.message_id \in channel_messages
    /\ menu.custom_id \in components[menu.message_id]
    /\ selected \subseteq menu.options
    /\ Cardinality(selected) <= menu.max_values
    /\ LET x == Start("menu", menu.message_id, menu.category_id, "", "", selected, "")
       IN Apply(x, MenuStart(x), TRUE)
    /\ UNCHANGED <<platform, commands>>

----------------------------------------------------------------------------
(* reaction_verify (src/reactionroles.py:687-796) *)

\* `if not role:` (738): the role of the entry no longer exists
VerifyOrphan(role_data) == ~RoleExists(role_data.role_id)

\* The loop over list(message_data.items()) of a found message (727-750);
\* md is the entry object the command took from the guild dict, keys what is
\* left of the snapshot of its items.  Every emoji key counts as an issue.
\* The key of a role that no longer exists is deleted through the guild
\* dict; when the dict has no such key any more the KeyError is logged and
\* the key is not counted as fixed.  A bare role id raises TypeError, and
\* the except clause that logs it raises AttributeError out of the command.
RECURSIVE VerifyWalk(_, _, _, _, _)
VerifyWalk(keys, md, message_id, cfg, report) ==
    IF keys = <<>> THEN [cfg |-> cfg, report |-> report, raised |-> FALSE]
    ELSE LET role_data == md.triggers[Head(keys)]
             counted == [report EXCEPT !.issues_found = @ + 1]
         IN IF ~IsEntry(role_data)
            THEN [cfg |-> cfg, report |-> counted, raised |-> TRUE]
            ELSE IF VerifyOrphan(role_data)
            THEN IF /\ message_id \in DOMAIN cfg
                    /\ Head(keys) \in DOMAIN cfg[message_id].triggers
                 THEN VerifyWalk(Tail(keys), md, message_id,
                                 [cfg EXCEPT ![message_id] = DelTrigger(@, Head(keys))],
                                 [counted EXCEPT !.missing_roles = @ + 1,
                                                 !.issues_fixed = @ + 1])
                 ELSE VerifyWalk(Tail(keys), md, message_id, cfg,
                                 [counted EXCEPT !.missing_roles = @ + 1])
            ELSE VerifyWalk(Tail(keys), md, message_id, cfg, counted)

\* the command goes to the next message of its snapshot, or saves when it
\* fixed something (779-780) and reports
VerifyNext(x, mem, io) ==
    IF x.rest = <<>>
    THEN IF x.report.issues_fixed > 0
         THEN Wrote(Return(x, "fixed", ""), Saved(mem, io))
         ELSE Wrote(Return(x, "clean", ""), mem)
    ELSE Wrote(Suspend(Await([x EXCEPT !.cur = Head(x.rest), !.rest = Tail(x.rest)],
                             "fetch", fetch_message(Head(x.rest)))), mem)

\* the command up to interaction.response.defer
VerifyStart(x) ==
    IF DOMAIN reaction_roles = {} THEN Return(x, "empty", "")
    ELSE Suspend(Await(x, "defer", pause))

\* the command from the await it was suspended at
VerifyResume(x, io) ==
    CASE x.pc = "defer" ->
           \* list(self.reaction_roles[guild_id].items()) (705)
           IF ~has_guild THEN Return(x, "raised", "key_error")
           ELSE VerifyNext([x EXCEPT !.rest = msg_order], Mem, io)
      [] x.pc = "fetch" ->
           IF x.ret # "ok"
           THEN VerifyNext([x EXCEPT !.cur = "",
                                     !.report.issues_found = @ + 1,
                                     !.report.missing_messages = @ + 1], Mem, io)
           ELSE LET md == Deref(x, reaction_roles, x.cur)
                    w == VerifyWalk(md.keys, md, x.cur, reaction_roles, x.report)
                    mem == [Mem EXCEPT !.cfg = w.cfg]
                IN IF w.raised
                   THEN Wrote(Return([x EXCEPT !.report = NoReport], "raised",
                                     "attribute_error"), mem)
                   ELSE VerifyNext([x EXCEPT !.cur = "", !.report = w.report], mem, io)

reaction_verify ==
    /\ CanStart
    /\ LET x == Start("verify", "", "", "", "", {}, "")
       IN Apply(x, VerifyStart(x), TRUE)
    /\ UNCHANGED <<platform, commands>>

----------------------------------------------------------------------------
(* reaction_cleanup (src/reactionroles.py:1124-1216) *)

\* a role check that removes nothing
CleanupOrphanNever(role_data) == FALSE

\* the key is deleted by the role loop (1174-1188): the role is gone, or
\* reading ["role_id"] raises and the entry is removed as invalid
CleanupOrphan(role_data) == ~IsEntry(role_data) \/ ~RoleExists(role_data.role_id)

\* the loop over list(guild[message_id].keys()) of a found message
RECURSIVE CleanupEntry(_, _, _)
CleanupEntry(keys, md, removed) ==
    IF keys = <<>> THEN [md |-> md, removed |-> removed]
    ELSE IF CleanupOrphan(md.triggers[Head(keys)])
    THEN CleanupEntry(Tail(keys), DelTrigger(md, Head(keys)), removed + 1)
    ELSE CleanupEntry(Tail(keys), md, removed)

\* the "empty messages" pass (1191-1194): entries with the "settings" key
\* and nothing else
CleanupEmpty(md) == HasSettings(md) /\ DOMAIN md.triggers = {}

\* initial_roles (1141-1145): the emoji keys of all entries
InitialRoles(cfg) ==
    SumOver(DOMAIN cfg, [m \in DOMAIN cfg |-> Cardinality(DOMAIN cfg[m].triggers)])

\* a cleanup whose empty pass runs only when no binding was removed
CleanupFinishDefersEmpty(x, mem, io) ==
    LET empty == IF x.report.removed_roles > 0 THEN {}
                 ELSE {m \in DOMAIN mem.cfg : CleanupEmpty(mem.cfg[m])}
        emptied == WithoutEntries(mem, empty)
        left == IF DOMAIN emptied.cfg # {} THEN emptied
                ELSE [emptied EXCEPT !.known = FALSE, !.table = EmptyTable]
    IN Wrote(Return([x EXCEPT !.report.removed_messages = @ + Cardinality(empty)],
                    "done", ""),
             Saved(left, io))

\* after the last message: the empty pass, the guild dict is deleted when
\* nothing is left in it (1197-1198), save_data, report
CleanupFinish(x, mem, io) ==
    LET empty == {m \in DOMAIN mem.cfg : CleanupEmpty(mem.cfg[m])}
        emptied == WithoutEntries(mem, empty)
        left == IF DOMAIN emptied.cfg # {} THEN emptied
                ELSE [emptied EXCEPT !.known = FALSE, !.table = EmptyTable]
    IN Wrote(Return([x EXCEPT !.report.removed_messages = @ + Cardinality(empty)],
                    "done", ""),
             Saved(left, io))

\* the command goes to the next message of its snapshot, or finishes
CleanupNext(x, mem, io) ==
    IF x.rest = <<>> THEN CleanupFinish(x, mem, io)
    ELSE Wrote(Suspend(Await([x EXCEPT !.item = Head(x.rest), !.rest = Tail(x.rest)],
                             "fetch", fetch_message(Head(x.rest)))), mem)

\* the command up to interaction.response.defer
CleanupStart(x) ==
    IF DOMAIN reaction_roles = {} THEN Return(x, "empty", "")
    ELSE Suspend(Await(x, "defer", pause))

\* the command from the await it was suspended at.  The entries are reached
\* through the guild dict every time: a message that is no longer in it is a
\* KeyError that leaves the command, with nothing saved or reported
CleanupResume(x, io) ==
    CASE x.pc = "defer" ->
           IF ~has_guild THEN Return(x, "raised", "key_error")
           ELSE CleanupNext([x EXCEPT !.rest = msg_order,
                                      !.report.initial_messages = Len(msg_order),
                                      !.report.initial_roles = InitialRoles(reaction_roles)],
                            Mem, io)
      [] x.pc = "fetch" ->
           LET message_id == x.item
               y == [x EXCEPT !.item = ""]
           IN IF message_id \notin DOMAIN reaction_roles
              THEN Return([y EXCEPT !.report = NoReport], "raised", "key_error")
              ELSE IF x.ret # "ok"
              THEN CleanupNext([y EXCEPT !.report.removed_messages = @ + 1],
                               WithoutEntries(Mem, {message_id}), io)
              ELSE LET md == reaction_roles[message_id]
                       w == CleanupEntry(md.keys, md, 0)
                   IN CleanupNext([y EXCEPT !.report.removed_roles = @ + w.removed],
                                  [Mem EXCEPT !.cfg = WithKey(reaction_roles, message_id, w.md)],
                                  io)

reaction_cleanup ==
    /\ CanStart
    /\ LET x == Start("cleanup", "", "", "", "", {}, "")
       IN Apply(x, CleanupStart(x), TRUE)
    /\ UNCHANGED <<platform, commands>>

----------------------------------------------------------------------------
(* Configuration commands (src/reactionroles.py:71-269, 1259-1712)  *)

\* the entry add_reaction_role writes: the bare role id
BareBinding(role_id) == [role_id |-> role_id, mode |-> "bare"]

\* a message entry {} : no "settings" key, no emoji key
EmptyEntry == MessageData("", NoRoles, None, NoTriggers, NoCategories)

\* an administrator issues one more configuration command
IssueCommand == commands < MaxCommands /\ commands' = commands + 1

\* one more message can be sent
CanSend == Cardinality(SentMessages) + Cardinality(Sending) < MaxNewMessages

\* guild[message_id] = entry (after `if guild_id not in self.reaction_roles`)
WithEntry(mem, message_id, entry) ==
    [mem EXCEPT !.cfg = WithKey(mem.cfg, message_id, entry),
                !.order = OrderWith(mem.order, mem.cfg, message_id),
                !.table = TabInsert(IF mem.known THEN mem.table ELSE EmptyTable, 0,
                                    message_id),
                !.known = TRUE]

\* the entries whose settings["categories"] is the dict object of message m
SameCategories(mem, m) == IF m \in mem.shared THEN mem.shared ELSE {m}

\* the memory after the categories of message m were changed as in md
WithCategories(mem, m, md) ==
    [mem EXCEPT !.cfg = [p \in DOMAIN mem.cfg |->
                            IF p \in SameCategories(mem, m)
                            THEN [mem.cfg[p] EXCEPT !.categories = md.categories,
                                                    !.cats = md.cats,
                                                    !.ctable = md.ctable]
                            ELSE mem.cfg[p]]]

----------------------------------------------------------------------------
(* /reaction create (84-164) and /reaction create_menu (1259-1329) *)

\* the command up to channel.send: the message carries no component
CreateStart(x) == Suspend(Await(x, "send", send({})))

\* after the message was sent: the entry is assigned under the id of the
\* message, with settings only (their embed_data is a new dict), and the
\* file is saved
CreateResume(x, io) ==
    LET new == x.ret
        entry == [MessageData(x.style, NoRoles, None, NoTriggers, NoCategories)
                     EXCEPT !.embed_of = new]
    IN Replaced(Wrote(Return([x EXCEPT !.message_id = new, !.new = new], "created", ""),
                      Saved(WithEntry(Mem, new, entry), io)),
                {new} \cap DOMAIN reaction_roles)

reaction_create(style) ==
    /\ CanStart
    /\ IssueCommand
    /\ CanSend
    /\ LET x == [Start("create", "", "", "", "", {}, "") EXCEPT !.style = style]
       IN Apply(x, CreateStart(x), TRUE)
    /\ UNCHANGED platform

create_menu ==
    /\ CanStart
    /\ IssueCommand
    /\ CanSend
    /\ LET x == [Start("create_menu", "", "", "", "", {}, "") EXCEPT !.style = "menu"]
       IN Apply(x, CreateStart(x), TRUE)
    /\ UNCHANGED platform

----------------------------------------------------------------------------
(* /reaction add (172-202), issued in the channel of the message *)

AddStart(x) == Suspend(Await(x, "fetch", fetch_message(x.message_id)))

\* after message.add_reaction: the emoji key is set to the bare role id in
\* an entry that is created empty when there is none, then the call of the
\* missing save_reaction_roles raises and the command answers with the
\* error; an exception of fetch_message or add_reaction is answered the same
AddResume(x) ==
    CASE x.pc = "fetch" ->
           IF x.ret # "ok" THEN Return(x, "error", "")
           ELSE Suspend(Await(x, "react", touch(x.message_id)))
      [] x.pc = "react" ->
           IF x.ret # "ok" THEN Return(x, "error", "")
           ELSE LET md == IF x.message_id \in DOMAIN reaction_roles
                          THEN reaction_roles[x.message_id] ELSE EmptyEntry
                IN Wrote(Return(x, "stored", ""),
                         WithEntry(Mem, x.message_id,
                                   SetTrigger(md, x.key, BareBinding(x.role_id))))

\* the commands that are about to write a bare role id
Adding == {x \in inflight : x.op = "add"}

add_reaction_role(message_id, emoji, role) ==
    /\ CanStart
    /\ IssueCommand
    /\ BareCount(reaction_roles) + Cardinality(Adding) < MaxBareBindings
    /\ LET x == Start("add", message_id, emoji, role, "", {role}, "")
       IN Apply(x, AddStart(x), TRUE)
    /\ UNCHANGED platform

----------------------------------------------------------------------------
(* /reaction remove (210-269) with update_button_message (622-685) *)

\* the command up to fetch_message: the binding is looked up and the style
\* read; ["settings"] of an entry without settings is a KeyError that leaves
\* the command
RemoveStart(x) ==
    IF \/ x.message_id \notin DOMAIN reaction_roles
       \/ x.key \notin DOMAIN reaction_roles[x.message_id].triggers
    THEN Return(x, "not_found", "")
    ELSE LET md == reaction_roles[x.message_id]
         IN IF ~HasSettings(md) THEN Return(x, "raised", "key_error")
            ELSE Suspend(Await([x EXCEPT !.style = md.style], "fetch",
                               fetch_message(x.message_id)))

\* "Remove from data" (249-259): the binding is read and deleted through
\* the guild dict as it is now; for the buttons style the buttons of the
\* entry are built again and sent with message.edit, then the file is saved
RemoveData(x, io) ==
    IF \/ x.message_id \notin DOMAIN reaction_roles
       \/ x.key \notin DOMAIN reaction_roles[x.message_id].triggers
    THEN Return(x, "raised", "key_error")
    ELSE LET md == reaction_roles[x.message_id]
             after == DelTrigger(md, x.key)
             mem == [Mem EXCEPT !.cfg = WithKey(reaction_roles, x.message_id, after)]
             y == [x EXCEPT !.mode = md.triggers[x.key].mode]
         IN IF ~IsEntry(md.triggers[x.key]) THEN Return(x, "raised", "type_error")
            ELSE IF x.style = "buttons" /\ x.found
            THEN IF ButtonsRaise(after) THEN Wrote(Return(y, "raised", "type_error"), mem)
                 ELSE Wrote(Suspend(Await([y EXCEPT !.view = ButtonItems(after, x.message_id)],
                                          "edit",
                                          edit(x.message_id,
                                               ButtonItems(after, x.message_id)))),
                            mem)
            ELSE Wrote(Return(y, "removed", IF io = "written" THEN "saved" ELSE "save_failed"),
                       Saved(mem, io))

\* the command from the await it was suspended at.  An exception of
\* clear_reaction or message.edit is passed over; a view that was sent is
\* stored in the view store
RemoveResume(x, io) ==
    CASE x.pc = "fetch" ->
           IF x.ret = "ok" /\ x.style = "reactions"
           THEN Suspend(Await([x EXCEPT !.found = TRUE], "clear", touch(x.message_id)))
           ELSE RemoveData([x EXCEPT !.found = (x.ret = "ok")], io)
      [] x.pc = "clear" -> RemoveData(x, io)
      [] x.pc = "edit" ->
           Wrote(Return(x, "removed", IF io = "written" THEN "saved" ELSE "save_failed"),
                 Saved([Mem EXCEPT !.views = IF x.ret = "ok" THEN StoreView(views, x.view)
                                             ELSE views], io))

reaction_remove(message_id, emoji) ==
    /\ CanStart
    /\ IssueCommand
    /\ LET x == Start("remove", message_id, emoji, "", "", {}, "")
       IN Apply(x, RemoveStart(x), TRUE)
    /\ UNCHANGED platform

----------------------------------------------------------------------------
(* The menu commands: add_category (1339-1398), add_menu_role (1415-1494), *)
(* remove_menu_role (1594-1654), remove_category (1662-1712), each ending  *)
(* with update_menu_message (1496-1586).  `key` is the category.           *)

\* what the command answers when it has changed the menu
Changed(x) == IF x.op \in {"add_category", "add_menu_role"} THEN "added" ELSE "removed"

\* the checks the four commands start with: the entry exists and is a menu
MenuCheck(x) ==
    IF x.message_id \notin DOMAIN reaction_roles THEN "not_found"
    ELSE IF ~HasSettings(reaction_roles[x.message_id]) THEN "raised"
    ELSE IF reaction_roles[x.message_id].style # "menu" THEN "not_menu"
    ELSE "menu"

\* the menu was changed as in md: save_data, then the message is fetched
MenuChanged(x, md, io) ==
    Wrote(Suspend(Await(x, "fetch", fetch_message(x.message_id))),
          Saved(WithCategories(Mem, x.message_id, md), io))

\* an update_menu_message that sends the view and does not keep it
MenuResumeUpdateUnkept(x) ==
    CASE x.pc = "fetch" ->
           IF x.ret # "ok" THEN Return(x, Changed(x), "no_message")
           ELSE IF x.message_id \notin DOMAIN reaction_roles
           THEN Return(x, Changed(x), "not_updated")
           ELSE LET md == reaction_roles[x.message_id]
                IN IF ~HasSettings(md) THEN Return(x, Changed(x), "update_raised")
                   ELSE IF md.style # "menu" THEN Return(x, Changed(x), "not_updated")
                   ELSE Suspend(Await([x EXCEPT !.view = MenuItems(md, x.message_id)],
                                      "edit",
                                      edit(x.message_id, MenuItems(md, x.message_id))))
      [] x.pc = "edit" -> Return(x, Changed(x), IF x.ret # "ok" THEN "edit_failed" ELSE "updated")

\* update_menu_message and the answer: when the entry is still a menu, one
\* select per category with roles is built from the entry as it is now and
\* sent with message.edit; the view that was sent is stored
MenuResumeUpdate(x) ==
    CASE x.pc = "fetch" ->
           IF x.ret # "ok" THEN Return(x, Changed(x), "no_message")
           ELSE IF x.message_id \notin DOMAIN reaction_roles
           THEN Return(x, Changed(x), "not_updated")
           ELSE LET md == reaction_roles[x.message_id]
                IN IF ~HasSettings(md) THEN Return(x, Changed(x), "update_raised")
                   ELSE IF md.style # "menu" THEN Return(x, Changed(x), "not_updated")
                   ELSE Suspend(Await([x EXCEPT !.view = MenuItems(md, x.message_id)],
                                      "edit",
                                      edit(x.message_id, MenuItems(md, x.message_id))))
      [] x.pc = "edit" ->
           IF x.ret # "ok" THEN Return(x, Changed(x), "edit_failed")
           ELSE Wrote(Return(x, Changed(x), "updated"),
                      [Mem EXCEPT !.views = StoreView(views, x.view)])

AddCategoryStart(x, io) ==
    IF MenuCheck(x) # "menu" THEN Return(x, MenuCheck(x), "")
    ELSE LET md == reaction_roles[x.message_id]
         IN IF x.key \in DOMAIN md.categories THEN Return(x, "exists", "")
            ELSE MenuChanged(x, SetCategory(md, x.key, [roles |-> <<>>]), io)

add_category(message_id, category_id) ==
    /\ CanStart
    /\ IssueCommand
    /\ \E io \in SaveOutcomes :
         LET x == Start("add_category", message_id, category_id, "", "", {}, "")
         IN Apply(x, AddCategoryStart(x, io), TRUE)
    /\ UNCHANGED platform

\* the role must be below the bot's highest role (1445) and in no category
\* of the menu (1453-1460); it is appended to the category
AddMenuRoleStart(x, io) ==
    IF MenuCheck(x) # "menu" THEN Return(x, MenuCheck(x), "")
    ELSE LET md == reaction_roles[x.message_id]
         IN IF x.key \notin DOMAIN md.categories THEN Return(x, "no_category", "")
            ELSE IF ~Manageable(x.role_id) THEN Return(x, "unmanageable", "")
            ELSE IF x.role_id \in MenuRoles(md) THEN Return(x, "duplicate", "")
            ELSE MenuChanged(x, [md EXCEPT !.categories[x.key].roles =
                                     Append(@, Binding(x.role_id, x.mode))], io)

add_menu_role(message_id, category_id, role, mode) ==
    /\ CanStart
    /\ IssueCommand
    /\ \E io \in SaveOutcomes :
         LET x == Start("add_menu_role", message_id, category_id, role, mode, {role}, "")
         IN Apply(x, AddMenuRoleStart(x, io), TRUE)
    /\ UNCHANGED platform

\* a list without its first role data of this role
RECURSIVE PopRole(_, _)
PopRole(roles, role_id) ==
    IF roles = <<>> THEN <<>>
    ELSE IF Head(roles).role_id = role_id THEN Tail(roles)
    ELSE <<Head(roles)>> \o PopRole(Tail(roles), role_id)

\* the first category, in the order of the categories dict, that has the role
RECURSIVE CategoryOf(_, _, _)
CategoryOf(md, cats, role_id) ==
    IF cats = <<>> THEN ""
    ELSE IF role_id \in CategoryRoles(md, Head(cats)) THEN Head(cats)
    ELSE CategoryOf(md, Tail(cats), role_id)

\* remove_menu_role: the role is popped from the first category that has it
RemoveMenuRoleStart(x, io) ==
    IF MenuCheck(x) # "menu" THEN Return(x, MenuCheck(x), "")
    ELSE LET md == reaction_roles[x.message_id]
             c == CategoryOf(md, md.cats, x.role_id)
         IN IF c = "" THEN Return(x, "no_role", "")
            ELSE MenuChanged([x EXCEPT !.key = c],
                             [md EXCEPT !.categories[c].roles = PopRole(@, x.role_id)], io)

remove_menu_role(message_id, role) ==
    /\ CanStart
    /\ IssueCommand
    /\ \E io \in SaveOutcomes :
         LET x == Start("remove_menu_role", message_id, "", role, "", {role}, "")
         IN Apply(x, RemoveMenuRoleStart(x, io), TRUE)
    /\ UNCHANGED platform

RemoveCategoryStart(x, io) ==
    IF MenuCheck(x) # "menu" THEN Return(x, MenuCheck(x), "")
    ELSE LET md == reaction_roles[x.message_id]
         IN IF x.key \notin DOMAIN md.categories THEN Return(x, "no_category", "")
            ELSE MenuChanged(x, DelCategory(md, x.key), io)

remove_category(message_id, category_id) ==
    /\ CanStart
    /\ IssueCommand
    /\ \E io \in SaveOutcomes :
         LET x == Start("remove_category", message_id, category_id, "", "", {}, "")
         IN Apply(x, RemoveCategoryStart(x, io), TRUE)
    /\ UNCHANGED platform

----------------------------------------------------------------------------
(* /reaction settings (317-356).  In the handler record `values` is the    *)
(* max_roles option of the command (None when it is not given) and         *)
(* `role_id` its required_role ("" when it is not given).                  *)

\* the entries whose settings hold the required_roles list of message m
SameRequired(cfg, m) ==
    IF cfg[m].req_of = "" THEN {m} ELSE {p \in DOMAIN cfg : cfg[p].req_of = cfg[m].req_of}

\* the entries whose settings hold the embed_data dict of message m
SameEmbed(cfg, m) ==
    IF cfg[m].embed_of = "" THEN {m} ELSE {p \in DOMAIN cfg : cfg[p].embed_of = cfg[m].embed_of}

\* settings["max_roles"] = max_roles when the option is given (335-336)
WithMaxRoles(cfg, m, max_roles) ==
    IF max_roles = None THEN cfg ELSE [cfg EXCEPT ![m].max_roles = max_roles]

\* the required role is appended to the list when it is not in it, the
\* list being created when there is none (338-342)
WithRequiredRole(cfg, m, role_id) ==
    IF role_id = "" \/ role_id \in SeqToSet(cfg[m].required_roles) THEN cfg
    ELSE IF cfg[m].required_roles = NoRoles
    THEN [cfg EXCEPT ![m].required_roles = <<role_id>>, ![m].req_of = m]
    ELSE [p \in DOMAIN cfg |->
             IF p \in SameRequired(cfg, m)
             THEN [cfg[p] EXCEPT !.required_roles = Append(@, role_id)]
             ELSE cfg[p]]

\* the whole command: it awaits nothing before it has saved.  ["settings"]
\* of an entry without settings is a KeyError that leaves the command
SettingsStart(x, io) ==
    IF x.message_id \notin DOMAIN reaction_roles THEN Return(x, "not_found", "")
    ELSE IF ~HasSettings(reaction_roles[x.message_id]) THEN Return(x, "raised", "key_error")
    ELSE Wrote(Return(x, "updated", IF io = "written" THEN "saved" ELSE "save_failed"),
               Saved([Mem EXCEPT !.cfg =
                         WithRequiredRole(WithMaxRoles(reaction_roles, x.message_id, x.values),
                                          x.message_id, x.role_id)], io))

\* required_role is a role of the guild, or "" when the option is not given
reaction_settings(message_id, max_roles, required_role) ==
    /\ CanStart
    /\ IssueCommand
    /\ required_role \in guild_roles \cup {""}
    /\ \E io \in SaveOutcomes :
         LET x == Start("settings", message_id, "", required_role, "", max_roles, "")
         IN Apply(x, SettingsStart(x, io), TRUE)
    /\ UNCHANGED platform

----------------------------------------------------------------------------
(* /reaction edit (366-467).  In the handler record `key` is the title     *)
(* option of the command and `mode` its color option ("" when not given).  *)

\* color.strip('#')
StripHash(color) == IF color = "#ff0000" THEN "ff0000" ELSE color

\* the three int(color[i:i+2], 16) succeed
IsHex(color) == color = "ff0000"

\* embed_data["title"] = title on the embed_data dict of message m
WithTitle(cfg, m, title) ==
    IF title = "" THEN cfg
    ELSE [p \in DOMAIN cfg |->
             IF p \in SameEmbed(cfg, m) THEN [cfg[p] EXCEPT !.embed.title = title]
             ELSE cfg[p]]

\* embed_data["color"] = color on the embed_data dict of message m
WithColor(cfg, m, color) ==
    IF color = "" THEN cfg
    ELSE [p \in DOMAIN cfg |->
             IF p \in SameEmbed(cfg, m) THEN [cfg[p] EXCEPT !.embed.color = StripHash(color)]
             ELSE cfg[p]]

\* the command up to fetch_message
EditStart(x) ==
    IF x.message_id \notin DOMAIN reaction_roles THEN Return(x, "not_found", "")
    ELSE Suspend(Await(x, "fetch", fetch_message(x.message_id)))

\* the command from the await it was suspended at.  After the fetch the
\* settings are read through the guild dict as it is now, a KeyError leaves
\* the command; the title is written to embed_data before the color is
\* validated; message.edit sends the embed alone; save_data runs when the
\* edit went through
EditResume(x, io) ==
    CASE x.pc = "fetch" ->
           IF x.ret # "ok" THEN Return(x, "no_message", "")
           ELSE IF \/ x.message_id \notin DOMAIN reaction_roles
                   \/ ~HasSettings(reaction_roles[x.message_id])
           THEN Return(x, "raised", "key_error")
           ELSE LET titled == WithTitle(reaction_roles, x.message_id, x.key)
                IN IF x.mode # "" /\ ~IsHex(StripHash(x.mode))
                   THEN Wrote(Return(x, "invalid_color", ""), [Mem EXCEPT !.cfg = titled])
                   ELSE Wrote(Suspend(Await(x, "edit", touch(x.message_id))),
                              [Mem EXCEPT !.cfg = WithColor(titled, x.message_id, x.mode)])
      [] x.pc = "edit" ->
           IF x.ret # "ok" THEN Return(x, "error", "platform")
           ELSE Wrote(Return(x, "edited", IF io = "written" THEN "saved" ELSE "save_failed"),
                      Saved(Mem, io))

reaction_edit(message_id, title, color) ==
    /\ CanStart
    /\ IssueCommand
    /\ LET x == Start("edit", message_id, title, "", color, {}, "")
       IN Apply(x, EditStart(x), TRUE)
    /\ UNCHANGED platform

----------------------------------------------------------------------------
(* /reaction rebuild (879-970) *)

\* the registration walk raised at some entry
RegisterRaises(cfg, order) == \E i \in 1..Len(order) : ViewRaises(cfg[order[i]])

\* a registration that forgets the handlers it does not derive
RebuildRegisterAnew(x) ==
    Wrote(Return(x, IF RegisterRaises(reaction_roles, msg_order) THEN "raised" ELSE "done",
                 ""),
          [Mem EXCEPT !.views = register_persistent_views(reaction_roles, msg_order)])

\* register_persistent_views (955-956) behind wait_until_ready: the walk
\* over the whole configuration as it is now, then the summary
RebuildRegister(x) ==
    Wrote(Return(x, IF RegisterRaises(reaction_roles, msg_order) THEN "raised" ELSE "done",
                 ""),
          [Mem EXCEPT !.views =
              StoreView(views, register_persistent_views(reaction_roles, msg_order))])

\* after the last message: register_persistent_views is awaited; its
\* wait_until_ready returns at once when the bot is ready and suspends the
\* command when it is not
RebuildFinish(x) ==
    IF phase = "connecting" THEN Suspend(Await(x, "ready", wait_until_ready))
    ELSE RebuildRegister(x)

\* the command goes to the next message of its snapshot, or finishes
RebuildNext(x) ==
    IF x.rest = <<>> THEN RebuildFinish([x EXCEPT !.cur = "", !.eit = NoIter])
    ELSE Suspend(Await([x EXCEPT !.cur = Head(x.rest), !.rest = Tail(x.rest),
                                 !.eit = NoIter],
                       "fetch", fetch_message(Head(x.rest))))

\* the loop that adds the reactions back (925-931), over the keys of the
\* entry object as they are; the RuntimeError of the iterator is logged and
\* the command goes to the next message
RebuildReactions(x) ==
    IF IterNext(x.eit, EntryTable(x)) # "item" THEN RebuildNext(x)
    ELSE Suspend(Await([x EXCEPT !.eit = IterAdvance(@, EntryTable(x))], "react",
                       touch(x.cur)))

\* the command up to its first answer
RebuildStart(x) ==
    IF DOMAIN reaction_roles = {} THEN Return(x, "empty", "")
    ELSE Suspend(Await(x, "announce", pause))

\* the command from the await it was suspended at.  A message that is found
\* is updated by the style of the entry object of the snapshot:
\* clear_reactions and the reactions again, or update_button_message, or
\* update_menu_message, which read the entry from the guild dict as it is
\* now; what they raise is logged
RebuildResume(x) ==
    CASE x.pc = "announce" ->
           IF ~has_guild THEN Return(x, "raised", "key_error")
           ELSE RebuildNext([x EXCEPT !.rest = msg_order])
      [] x.pc = "fetch" ->
           IF x.ret # "ok" THEN RebuildNext(x)
           ELSE LET style == StyleOf(Deref(x, reaction_roles, x.cur))
                    here == x.cur \in DOMAIN reaction_roles
                    md == reaction_roles[x.cur]
                IN IF style = "reactions"
                   THEN Suspend(Await(x, "clear", touch(x.cur)))
                   ELSE IF style = "buttons"
                   THEN IF ~here \/ ButtonsRaise(md) THEN RebuildNext(x)
                        ELSE Suspend(Await([x EXCEPT !.view = ButtonItems(md, x.cur)],
                                           "edit", edit(x.cur, ButtonItems(md, x.cur))))
                   ELSE IF style = "menu"
                   THEN IF ~here \/ ~HasSettings(md) \/ md.style # "menu"
                        THEN RebuildNext(x)
                        ELSE Suspend(Await([x EXCEPT !.view = MenuItems(md, x.cur)],
                                           "edit", edit(x.cur, MenuItems(md, x.cur))))
                   ELSE RebuildNext(x)
      [] x.pc = "clear" ->
           IF x.ret # "ok" THEN RebuildNext(x)
           ELSE RebuildReactions([x EXCEPT
                    !.eit = Iter(Deref(x, reaction_roles, x.cur).table)])
      [] x.pc = "react" ->
           IF x.ret # "ok" THEN RebuildReactions(x)
           ELSE Suspend(Await(x, "sleep", pause))
      [] x.pc = "sleep" -> RebuildReactions(x)
      [] x.pc = "ready" -> RebuildRegister(x)
      [] x.pc = "edit" ->
           IF x.ret # "ok" THEN RebuildNext(x)
           ELSE Wrote(RebuildNext(x), [Mem EXCEPT !.views = StoreView(views, x.view)])

reaction_rebuild ==
    /\ CanStart
    /\ IssueCommand
    /\ LET x == Start("rebuild", "", "", "", "", {}, "")
       IN Apply(x, RebuildStart(x), TRUE)
    /\ UNCHANGED platform

----------------------------------------------------------------------------
(* /reaction clone (978-1120).  `key` becomes the id of the new message.   *)

\* the emoji entries clone copies before role_data.copy() raises on a bare
\* role id
RECURSIVE CopiedKeys(_, _)
CopiedKeys(md, order) ==
    IF order = <<>> THEN <<>>
    ELSE IF ~IsEntry(md.triggers[Head(order)]) THEN <<>>
    ELSE <<Head(order)>> \o CopiedKeys(md, Tail(order))

\* the buttons clone sends: built with message_id "temp_id", whose attribute
\* is set to the id of the new message afterwards
CloneButtons(items, new) == {[b EXCEPT !.message_id = new] : b \in items}

\* settings.copy() (1086, 1105): the new settings dict holds the required_roles
\* list and the embed_data dict of the entry object the command took; when
\* that object is no longer the entry of the guild dict, no entry but the
\* new one holds them
HeldSettings(x, md, new) ==
    IF x.message_id \notin DOMAIN x.refs THEN md
    ELSE [md EXCEPT !.req_of = IF @ = "" THEN "" ELSE new,
                    !.embed_of = IF @ = "" THEN "" ELSE new]

\* "Create data structure for the new message" (1099-1112): an empty entry,
\* the copy of the settings, the copies of the role data, save_data.  md is
\* the entry object the command took at its start
CloneCopy(x, mem, io) ==
    LET md == Deref(x, reaction_roles, x.message_id)
        new == x.new
        copied == CopiedKeys(md, md.keys)
        entry == IF ~HasSettings(md) THEN EmptyEntry
                 ELSE [HeldSettings(x, md, new) EXCEPT
                          !.triggers = [e \in SeqToSet(copied) |-> md.triggers[e]],
                          !.keys = copied,
                          !.table = FreshTable(copied, 1)]
        repl == {new} \cap DOMAIN reaction_roles
    IN IF ~mem.known THEN Wrote(Return(x, "raised", "key_error"), mem)
       ELSE IF HasSettings(md) /\ copied = md.keys
       THEN Replaced(Wrote(Return(x, "cloned", ""), Saved(WithEntry(mem, new, entry), io)),
                     repl)
       ELSE Replaced(Wrote(Return(x, "raised", ""), WithEntry(mem, new, entry)), repl)

\* the loop that adds the reactions to the new message (1033-1039), over
\* the keys of the entry object as they are; the RuntimeError of the
\* iterator leaves the try block
CloneReactions(x, io) ==
    LET step == IterNext(x.eit, EntryTable(x))
    IN IF step \in {"changed_size", "keys_changed"} THEN Return(x, "raised", "dict_changed")
       ELSE IF step = "stop" THEN CloneCopy([x EXCEPT !.eit = NoIter, !.cur = ""], Mem, io)
       ELSE Suspend(Await([x EXCEPT !.eit = IterAdvance(@, EntryTable(x))], "react",
                          touch(x.new)))

\* the command up to the fetch of the original message
CloneStart(x) ==
    IF x.message_id \notin DOMAIN reaction_roles THEN Return(x, "not_found", "")
    ELSE Suspend(Await([x EXCEPT !.style = StyleOf(reaction_roles[x.message_id])],
                       "fetch", fetch_message(x.message_id)))

\* the command from the await it was suspended at
CloneResume(x, io) ==
    LET md == Deref(x, reaction_roles, x.message_id)
    IN CASE x.pc = "fetch" ->
              IF x.ret # "ok" THEN Return(x, "no_original", "")
              ELSE IF x.style = "buttons"
              THEN \* the view is built before the message is sent
                   IF ButtonsRaise(md) THEN Return(x, "raised", "type_error")
                   ELSE Suspend(Await([x EXCEPT !.view = ButtonItems(md, "temp_id")],
                                      "send", send(ButtonItems(md, "temp_id"))))
              ELSE Suspend(Await(x, "send", send({})))
         [] x.pc = "send" ->
              LET new == x.ret
                  y == [x EXCEPT !.new = new, !.key = new]
              IN IF x.style = "reactions"
                 THEN CloneReactions([y EXCEPT !.cur = x.message_id, !.eit = Iter(md.table)],
                                     io)
                 ELSE IF x.style = "buttons"
                 THEN CloneCopy(y, [Mem EXCEPT !.views =
                                       StoreView(views, CloneButtons(x.view, new))], io)
                 ELSE IF x.style = "menu"
                 THEN IF ~has_guild THEN Return(y, "raised", "key_error")
                      ELSE LET entry == [HeldSettings(x, md, new) EXCEPT
                                            !.triggers = NoTriggers, !.keys = <<>>,
                                            !.table = EmptyTable]
                               mem == [WithEntry(Mem, new, entry) EXCEPT !.shared =
                                          IF x.message_id \in DOMAIN x.refs THEN @
                                          ELSE @ \cup {x.message_id, new}]
                           IN Replaced(
                                Wrote(Suspend(Await([y EXCEPT !.view = MenuItems(entry, new)],
                                                    "edit",
                                                    edit(new, MenuItems(entry, new)))),
                                      mem),
                                {new} \cap DOMAIN reaction_roles)
                 ELSE CloneCopy(y, Mem, io)
         [] x.pc = "react" ->
              IF x.ret # "ok" THEN CloneReactions(x, io)
              ELSE Suspend(Await(x, "sleep", pause))
         [] x.pc = "sleep" -> CloneReactions(x, io)
         [] x.pc = "edit" ->
              Wrote(Return(x, "cloned", ""),
                    Saved([Mem EXCEPT !.views = IF x.ret = "ok" THEN StoreView(views, x.view)
                                                ELSE views], io))

reaction_clone(message_id) ==
    /\ CanStart
    /\ IssueCommand
    /\ CanSend
    /\ LET x == Start("clone", message_id, "", "", "", {}, "")
       IN Apply(x, CloneStart(x), TRUE)
    /\ UNCHANGED platform

----------------------------------------------------------------------------
(* A suspended handler goes on *)

\* the handler with record x from the await it was suspended at; io: how a
\* save_data it reaches ends
Run(x, io) ==
    CASE x.op = "reaction_add" -> ReactionAddResume(x)
      [] x.op \in {"reaction_remove", "reaction_remove_event"} -> ReactionRemoveResume(x)
      [] x.op = "button" -> ButtonResume(x)
      [] x.op = "menu" -> MenuResume(x)
      [] x.op = "verify" -> VerifyResume(x, io)
      [] x.op = "cleanup" -> CleanupResume(x, io)
      [] x.op \in {"create", "create_menu"} -> CreateResume(x, io)
      [] x.op = "add" -> AddResume(x)
      [] x.op = "remove" -> RemoveResume(x, io)
      [] x.op \in {"add_category", "add_menu_role", "remove_menu_role", "remove_category"} ->
           MenuResumeUpdate(x)
      [] x.op = "rebuild" -> RebuildResume(x)
      [] x.op = "clone" -> CloneResume(x, io)
      [] x.op = "edit" -> EditResume(x, io)

\* the event loop resumes a handler whose awaited call has been performed
resume(x) ==
    /\ x \in inflight
    /\ x.landed
    /\ \E io \in SaveOutcomes, fresh \in BOOLEAN : Apply(x, Run(Refresh(x, fresh), io), FALSE)
    /\ UNCHANGED <<platform, commands>>

----------------------------------------------------------------------------
(* Process start (src/bot.py:41-44, src/reactionroles.py:32-69, 798-875)   *)

\* the process stops and starts again: the cog's __init__ loads the file and
\* creates the two tasks, which wait until the bot is ready; the view store
\* of the new process is empty and the handlers of the old one are gone
Restart ==
    /\ file_parses
    /\ reaction_roles' = file
    /\ msg_order' = file_order
    /\ has_guild' = (DOMAIN file # {})
    /\ guild_table' = FreshTable(file_order, 0)
    /\ views' = {}
    /\ phase' = "connecting"
    /\ shared' = {}
    /\ pending' = {}
    /\ inflight' = {}
    /\ last' = Last("restart", "", "", "", {}, "", member_roles)
    /\ UNCHANGED <<file, file_order, file_parses, guild_roles, channel_messages,
                   member_roles, components, commands, store, forbidden_roles>>

\* the process starts and load_data fails: the file exists but reading it
\* raises, or its text is no JSON document; the exception is logged and
\* self.reaction_roles stays the empty dict of __init__; the file keeps its
\* content
RestartUnreadable ==
    /\ reaction_roles' = <<>>
    /\ msg_order' = <<>>
    /\ has_guild' = FALSE
    /\ guild_table' = EmptyTable
    /\ views' = {}
    /\ phase' = "connecting"
    /\ shared' = {}
    /\ pending' = {}
    /\ inflight' = {}
    /\ last' = Last("restart", "", "", "", {}, "load_failed", member_roles)
    /\ UNCHANGED <<file, file_order, file_parses, guild_roles, channel_messages,
                   member_roles, components, commands, store, forbidden_roles>>

\* the bot becomes ready: wait_until_ready returns in both tasks
on_ready ==
    /\ phase = "connecting"
    /\ phase' = "ready"
    /\ last' = Last("ready", "", "", "", {}, "", member_roles)
    /\ UNCHANGED <<memory, platform, commands, store, forbidden_roles, inflight>>

\* the task created in __init__ runs register_persistent_views
register_task ==
    /\ phase = "ready"
    /\ views' = StoreView(views, register_persistent_views(reaction_roles, msg_order))
    /\ phase' = "registered"
    /\ last' = Last("register", "", "", "", {},
                    IF RegisterRaises(reaction_roles, msg_order) THEN "raised" ELSE "done",
                    member_roles)
    /\ UNCHANGED <<reaction_roles, msg_order, file, file_order, shared, has_guild,
                   guild_table, file_parses, platform, commands, store, forbidden_roles,
                   inflight>>

\* the gateway delivers a click on a component shown on a message while
\* the view store holds no item with that custom_id for the message: no
\* callback runs and the member sees a failed interaction
interaction_unrouted(message_id) ==
    /\ message_id \in channel_messages
    /\ message_id \in DOMAIN components
    /\ \E id \in components[message_id] :
          ~\E v \in views : v.message_id = message_id /\ v.custom_id = id
    /\ last' = Last("interaction", message_id, "", "", {}, "unrouted", member_roles)
    /\ UNCHANGED <<memory, platform, phase, commands, store, forbidden_roles, inflight>>

\* one iteration of the save_task loop, which starts once the bot is ready
save_task ==
    /\ phase # "connecting"
    /\ \E io \in SaveOutcomes :
          /\ file' = save_data(Dump(reaction_roles), file, io)
          /\ file_order' = save_data(msg_order, file_order, io)
          /\ file_parses' = SavedParses(file_parses, io)
          /\ last' = Last("save_task", "", "", "", {},
                          IF io = "written" THEN "saved" ELSE "failed", member_roles)
    /\ UNCHANGED <<reaction_roles, msg_order, views, shared, has_guild, guild_table,
                   platform, phase, commands, store, forbidden_roles, inflight>>

----------------------------------------------------------------------------
(* The platform outside the engine *)

\* a role is deleted from the guild; every member loses it
DeleteRole(role_id) ==
    /\ role_id \in guild_roles
    /\ Cardinality(Roles \ guild_roles) < MaxDeletedRoles
    /\ guild_roles' = guild_roles \ {role_id}
    /\ member_roles' = member_roles \ {role_id}
    /\ last' = Last("delete_role", "", role_id, "", {}, "", member_roles)
    /\ UNCHANGED <<memory, channel_messages, pending, components, phase, commands, store,
                   forbidden_roles, inflight>>

\* a configured message is deleted from its channel
DeleteMessage(message_id) ==
    /\ message_id \in channel_messages
    /\ Cardinality(MessageIds \ channel_messages) < MaxDeletedMessages
    /\ channel_messages' = channel_messages \ {message_id}
    /\ last' = Last("delete_message", message_id, "", "", {}, "", member_roles)
    /\ UNCHANGED <<memory, guild_roles, member_roles, pending, components, phase, commands,
                   store, forbidden_roles, inflight>>

----------------------------------------------------------------------------
(* Initial state: the cog has loaded reaction_roles.json and the startup   *)
(* registration has run; the member holds any set of roles.                *)

\* ReactionRolesStorage.__init__ without a MongoDB URI and without a file:
\* the JSON backend with an empty dict; the cog itself never uses the object
NoStoreOp == [name |-> "", guild_id |-> "", message_id |-> "", doc |-> None,
              result |-> None, task |-> None]

StoreIdle == [use_db |-> FALSE, db_bool |-> TRUE, client |-> FALSE, connected |-> FALSE,
              data |-> <<>>, same |-> {}, file |-> <<>>, file_ok |-> TRUE, docs |-> <<>>,
              op |-> NoStoreOp, writing |-> {}, waiting |-> {}, calls |-> 0]

\* the engine after the start with this configuration in the file
LoadedEngine(cfg, order) ==
    /\ reaction_roles = cfg
    /\ msg_order = order
    /\ has_guild = (DOMAIN cfg # {})
    /\ guild_table = FreshTable(order, 0)
    /\ file = reaction_roles
    /\ file_order = msg_order
    /\ file_parses = TRUE
    /\ views = register_persistent_views(reaction_roles, msg_order)
    /\ components = [m \in MessageIds |->
                        IF m \in DOMAIN cfg THEN CustomIds(MessageComponents(cfg[m], m))
                        ELSE {}]
    /\ phase = "registered"
    /\ shared = {}
    /\ commands = 0
    /\ guild_roles = Roles
    /\ channel_messages = MessageIds
    /\ pending = {}
    /\ inflight = {}
    /\ last = Last("init", "", "", "", {}, "", member_roles)

\* the bot's role is above every role it hands out
Loaded(f, g, order) ==
    /\ member_roles \in SUBSET Roles
    /\ forbidden_roles = {}
    /\ store = StoreIdle
    /\ LoadedEngine(LoadedConfig(f, g), order)

Init == \E fg \in ConfigFamily : \E order \in LoadedOrders(fg[1]) :
            Loaded(fg[1], fg[2], order)

\* one ungated configuration with a unique-mode reaction, for the runs in
\* which roles and messages get deleted and verify repairs the store
OneUnique == [s \in Slots |-> IF s = <<"m1", "e1">> THEN "unique" ELSE "normal"]

InitDrift == Loaded(OneUnique, NoGate, <<"m1", "m2", "m3">>)

----------------------------------------------------------------------------
(* Specifications.  In most of them the handlers run one after another: a  *)
(* handler starts when none is suspended (Quiet) and the platform performs *)
(* its calls and resumes it step by step.  SpecInterleave, SpecOverlap and *)
(* SpecCommands let handlers run while another one is suspended.           *)

\* no handler is suspended and no remove event of the bot's making waits
Quiet == inflight = {} /\ pending = {}

\* at most one handler is suspended
AtMostOne == \A x, y \in inflight : x = y

\* the platform performs an awaited call, or a handler goes on
Step ==
    \/ \E x \in inflight : land(x)
    \/ \E x \in inflight : resume(x)

Activate ==
    \/ \E m \in MessageIds, e \in Emojis : Quiet /\ on_raw_reaction_add(m, e)
    \/ \E m \in MessageIds, e \in Emojis : Quiet /\ on_raw_reaction_remove(m, e)
    \/ \E m \in MessageIds, e \in Emojis :
          inflight = {} /\ on_raw_reaction_remove_event(m, e)
    \/ \E button \in views : Quiet /\ RoleButton_callback(button)
    \/ \E menu \in views, selected \in SUBSET Roles :
          Quiet /\ RoleSelectMenu_callback(menu, selected)

\* every handler one after another, while roles and messages get deleted at
\* any time, also while a handler is suspended
Next ==
    \/ Activate
    \/ Step
    \/ Quiet /\ reaction_verify
    \/ Quiet /\ reaction_cleanup
    \/ \E r \in Roles : DeleteRole(r)
    \/ \E m \in MessageIds : DeleteMessage(m)

Spec == InitDrift /\ [][Next]_vars

\* the activation handlers over the family of loaded configurations
NextActivation ==
    \/ Activate
    \/ Step

SpecActivation == Init /\ [][NextActivation]_vars

\* the activation handlers and restarts of the process
NextStartup ==
    \/ Activate
    \/ Step
    \/ Restart
    \/ RestartUnreadable
    \/ on_ready
    \/ register_task
    \/ \E m \in MessageIds : interaction_unrouted(m)

SpecStartup == InitDrift /\ [][NextStartup]_vars

\* a guild whose menu has room: category c1 lists r3, category c2 is empty
ConfigureConfig ==
    [LoadedConfig(AllNormal, NoGate) EXCEPT
        !["m3"].categories =
            [c \in CategoryIds |->
                IF c = "c1" THEN [roles |-> <<Binding("r3", "normal")>>]
                ELSE [roles |-> <<>>]]]

InitEngine ==
    /\ member_roles = {}
    /\ forbidden_roles = {}
    /\ LoadedEngine(ConfigureConfig, <<"m1", "m2", "m3">>)

InitConfigure == InitEngine /\ store = StoreIdle

\* the roles and modes the administrator passes to the commands
CommandRoles == {"r1", "r3"}
CommandModes == {"normal", "unique"}

\* the messages the configuration commands are aimed at
ConfiguredIds == {"m1", "m2"}

Configure ==
    \/ \E style \in {"reactions", "buttons"} : Quiet /\ reaction_create(style)
    \/ \E m \in ConfiguredIds, e \in Emojis : Quiet /\ add_reaction_role(m, e, "r1")
    \/ \E m \in ConfiguredIds, e \in Emojis : Quiet /\ reaction_remove(m, e)
    \/ \E c \in CategoryIds, mode \in CommandModes :
          Quiet /\ add_menu_role("m3", c, "r1", mode)
    \/ \E m \in {"m2", "m3"} : Quiet /\ reaction_clone(m)

NextConfigure ==
    \/ Configure
    \/ Step
    \/ Quiet /\ Restart
    \/ Quiet /\ RestartUnreadable
    \/ Quiet /\ on_ready
    \/ Quiet /\ register_task
    \/ Quiet /\ save_task

\* the configuration commands, the periodic save and restarts of the process
SpecConfigure == InitConfigure /\ [][NextConfigure]_vars

\* the commands on the menus of the guild
NextMenu ==
    \/ Quiet /\ create_menu
    \/ \E m \in {"m3"} \cup NewMessageIds, c \in CategoryIds : Quiet /\ add_category(m, c)
    \/ \E m \in {"m3"} \cup NewMessageIds, c \in CategoryIds, r \in CommandRoles :
          Quiet /\ add_menu_role(m, c, r, "normal")
    \/ \E m \in {"m3"} \cup NewMessageIds, r \in CommandRoles : Quiet /\ remove_menu_role(m, r)
    \/ \E m \in {"m3"} \cup NewMessageIds, c \in CategoryIds : Quiet /\ remove_category(m, c)
    \/ Quiet /\ reaction_clone("m3")
    \/ Step

\* the bot's highest role is above every role, or not above r1
InitMenu ==
    /\ member_roles = {}
    /\ forbidden_roles \in {{}, {"r1"}}
    /\ store = StoreIdle
    /\ LoadedEngine(ConfigureConfig, <<"m1", "m2", "m3">>)

SpecMenu == InitMenu /\ [][NextMenu]_vars

\* the commands whose change reaches the file late or with a save that
\* fails, and the periodic save
NextPersist ==
    \/ \E m \in {"m1", "m2"}, e \in Emojis : Quiet /\ add_reaction_role(m, e, "r1")
    \/ \E m \in {"m1", "m2"}, e \in Emojis : Quiet /\ reaction_remove(m, e)
    \/ \E n \in {None, {1}}, r \in {"", "r3"} : Quiet /\ reaction_settings("m1", n, r)
    \/ Quiet /\ reaction_edit("m2", "edited", "")
    \/ Step
    \/ save_task

\* an iteration of the save_task loop whose write succeeds
save_task_saved == save_task /\ last'.outcome = "saved"

\* the loop of tasks.loop(minutes=5) keeps running for the life of the
\* process, and writes succeed again and again
SpecPersist == InitConfigure /\ [][NextPersist]_vars /\ WF_vars(save_task_saved)

\* ungated configurations with at most one binding that is not "normal"
ForbiddenFamily == {f \in ModeAssignments : \A s, t \in Special(f) : s = t}

\* the roles placed above the bot's highest role: none or one
ForbiddenChoices == {{}} \cup {{r} : r \in Roles}

InitForbidden ==
    \E f \in ForbiddenFamily : \E order \in LoadedOrders(f) :
        /\ member_roles \in SUBSET Roles
        /\ forbidden_roles \in ForbiddenChoices
        /\ store = StoreIdle
        /\ LoadedEngine(LoadedConfig(f, NoGate), order)

NextForbidden ==
    \/ Activate
    \/ Step

\* the activation handlers in a guild where the bot may not manage every role
SpecForbidden == InitForbidden /\ [][NextForbidden]_vars

InitOrphan ==
    \E f \in ForbiddenFamily : \E order \in LoadedOrders(f) : Loaded(f, NoGate, order)

NextOrphan ==
    \/ Activate
    \/ Step
    \/ \E r \in Roles : Quiet /\ DeleteRole(r)

\* the activation handlers in a guild whose roles get deleted between two
\* activations
SpecOrphan == InitOrphan /\ [][NextOrphan]_vars

\* the messages whose bindings get removed in the runs with live components
LiveMessageIds == {"m1", "m2"}

\* commands that change the bindings of a message while members react to
\* it and click its buttons
NextLive ==
    \/ \E e \in Emojis : Quiet /\ add_reaction_role("m2", e, "r1")
    \/ \E m \in LiveMessageIds, e \in Emojis : Quiet /\ reaction_remove(m, e)
    \/ \E e \in Emojis : Quiet /\ on_raw_reaction_add("m1", e)
    \/ \E e \in Emojis : Quiet /\ on_raw_reaction_remove("m1", e)
    \/ \E e \in Emojis, op \in {"reaction_add", "reaction_remove"} :
          Quiet /\ on_raw_reaction_unbound(op, "m1", e)
    \/ \E button \in views : Quiet /\ RoleButton_callback(button)
    \/ Step

SpecLive == InitConfigure /\ [][NextLive]_vars

\* commands that name messages, triggers and categories the store may not
\* have, and the commands that reconcile the store they leave
NextUnknown ==
    \/ \E e \in Emojis : Quiet /\ add_reaction_role("m1", e, "r1")
    \/ \E e \in Emojis : Quiet /\ reaction_remove("m1", e)
    \/ \E m \in {"m3", "m4"}, c \in CategoryIds :
          Quiet /\ add_menu_role(m, c, "r1", "normal")
    \/ \E m \in {"m1", "m4"} : Quiet /\ reaction_settings(m, {1}, "")
    \/ \E m \in {"m1", "m4"} : Quiet /\ reaction_edit(m, "edited", "")
    \/ Quiet /\ reaction_verify
    \/ Quiet /\ reaction_cleanup
    \/ Step

SpecUnknown == InitConfigure /\ [][NextUnknown]_vars

\* commands that change the configuration, restarts of the process with the
\* startup registration, and rebuilds
NextRebuild ==
    \/ \E e \in Emojis : Quiet /\ add_reaction_role("m2", e, "r1")
    \/ \E e \in Emojis : Quiet /\ reaction_remove("m2", e)
    \/ \E r \in CommandRoles : Quiet /\ add_menu_role("m3", "c2", r, "unique")
    \/ Quiet /\ reaction_rebuild
    \/ Step
    \/ Restart
    \/ RestartUnreadable
    \/ on_ready
    \/ register_task

SpecRebuild == InitConfigure /\ [][NextRebuild]_vars

\* starts of the process whose load succeeds or fails, the periodic save, and
\* commands that save; none of them deletes a message entry
NextRestart ==
    \/ \E style \in {"reactions", "buttons"} : Quiet /\ reaction_create(style)
    \/ \E e \in Emojis : Quiet /\ reaction_remove("m1", e)
    \/ \E r \in {"r1", "r3"} : Quiet /\ reaction_settings("m2", None, r)
    \/ Step
    \/ Restart
    \/ RestartUnreadable
    \/ on_ready
    \/ register_task
    \/ save_task

SpecRestart == InitConfigure /\ [][NextRestart]_vars

\* the entries of these messages
Only(cfg, ids) == [m \in ids |-> cfg[m]]

\* a guild whose store holds the reaction message m1 alone, with its key e1
\* in "unique" mode; the member holds the role of the other key, or nothing
InitInterleave ==
    /\ member_roles \in {{}, {"r2"}}
    /\ forbidden_roles = {}
    /\ store = StoreIdle
    /\ LoadedEngine(Only(LoadedConfig(OneUnique, NoGate), {"m1"}), <<"m1">>)

\* nothing but one reaction handler is suspended
OnlyReaction == AtMostOne /\ \A x \in inflight : x.op = "reaction_add"

\* a reaction on m1 is handled while the binding of e2 is removed, its role
\* is deleted and the store is reconciled
NextInterleave ==
    \/ \E e \in Emojis : Quiet /\ on_raw_reaction_add("m1", e)
    \/ \E e \in Emojis : inflight = {} /\ on_raw_reaction_remove_event("m1", e)
    \/ OnlyReaction /\ reaction_remove("m1", "e2")
    \/ OnlyReaction /\ reaction_verify
    \/ OnlyReaction /\ reaction_cleanup
    \/ DeleteRole("r2")
    \/ Step

SpecInterleave == InitInterleave /\ [][NextInterleave]_vars

\* the keys of m1 and the buttons of m2 are "unique"
OverlapConfig ==
    [LoadedConfig(AllNormal, NoGate) EXCEPT
        !["m1"].triggers["e1"].mode = "unique",
        !["m1"].triggers["e2"].mode = "unique",
        !["m2"].triggers["e1"].mode = "unique",
        !["m2"].triggers["e2"].mode = "unique"]

\* a guild whose store holds the reaction message m1 and the button message
\* m2; the member holds nothing or one role
InitOverlap ==
    /\ member_roles \in {{}, {"r3"}}
    /\ forbidden_roles = {}
    /\ store = StoreIdle
    /\ LoadedEngine(Only(OverlapConfig, {"m1", "m2"}), <<"m1", "m2">>)

\* at most one handler is suspended, the handler of a reaction event
AmongReactions ==
    AtMostOne /\ \A x \in inflight : x.op \in {"reaction_add", "reaction_remove_event"}

\* at most one handler is suspended, the callback of a button
AmongClicks == AtMostOne /\ \A x \in inflight : x.op = "button"

\* two reactions of the member at a time, or two clicks
NextOverlap ==
    \/ \E e \in Emojis : pending = {} /\ AmongReactions /\ on_raw_reaction_add("m1", e)
    \/ \E e \in Emojis : AmongReactions /\ on_raw_reaction_remove_event("m1", e)
    \/ \E button \in views : pending = {} /\ AmongClicks /\ RoleButton_callback(button)
    \/ Step

SpecOverlap == InitOverlap /\ [][NextOverlap]_vars

\* a guild whose store holds the menu message m3
InitSubmit ==
    /\ member_roles = {}
    /\ forbidden_roles = {}
    /\ store = StoreIdle
    /\ LoadedEngine(Only(LoadedConfig(AllNormal, NoGate), {"m3"}), <<"m3">>)

\* two submissions of the member at a time
NextSubmit ==
    \/ \E menu \in views, selected \in SUBSET Roles :
          AtMostOne /\ RoleSelectMenu_callback(menu, selected)
    \/ Step

SpecSubmit == InitSubmit /\ [][NextSubmit]_vars

\* at most one handler is suspended, a command that creates an entry
Creating == AtMostOne /\ \A x \in inflight : x.op \in {"create", "add"}

\* a command that creates an entry in the store is suspended while another
\* one runs, a message gets deleted and the store is cleaned up
NextCommands ==
    \/ Creating /\ reaction_create("buttons")
    \/ \E m \in {"m1", "m4"} : Creating /\ add_reaction_role(m, "e1", "r3")
    \/ Creating /\ reaction_cleanup
    \/ DeleteMessage("m1")
    \/ Step

\* a guild whose store holds the reaction message m1
InitCommands ==
    /\ member_roles = {}
    /\ forbidden_roles = {}
    /\ store = StoreIdle
    /\ LoadedEngine(Only(LoadedConfig(AllNormal, NoGate), {"m1"}), <<"m1">>)

SpecCommands == InitCommands /\ [][NextCommands]_vars

\* two commands at a time that edit the components of a message
NextEdits ==
    \/ \E e \in Emojis : AtMostOne /\ reaction_remove("m2", e)
    \/ \E c \in CategoryIds, r \in {"r1", "r2"} :
          AtMostOne /\ add_menu_role("m3", c, r, "normal")
    \/ Step

SpecEdits == InitConfigure /\ [][NextEdits]_vars

\* the largest max_roles the administrator passes
MaxCap == 3

\* the max_roles option of /reaction settings: not given, or an integer
MaxRolesOptions == {None, {1}, {MaxCap}}

\* the color option of /reaction edit: not given, a hex code, or no hex code
ColorOptions == {"", "#ff0000", "red"}

\* a guild whose store holds the reaction message m1; the member holds
\* nothing or one role
InitSettings ==
    /\ member_roles \in {{}, {"r1"}}
    /\ forbidden_roles = {}
    /\ store = StoreIdle
    /\ LoadedEngine(Only(LoadedConfig(AllNormal, NoGate), {"m1"}), <<"m1">>)

\* the settings of the reaction message m1 are changed and its embed is
\* edited, m1 is cloned, and the member reacts in between; the reaction the
\* bot withdraws comes back as a remove event
NextSettings ==
    \/ \E m \in {"m1", "m4"}, n \in MaxRolesOptions, r \in {"", "r1", "r3"} :
          Quiet /\ reaction_settings(m, n, r)
    \/ \E title \in {"", "edited"}, color \in ColorOptions :
          Quiet /\ reaction_edit("m1", title, color)
    \/ Quiet /\ reaction_clone("m1")
    \/ \E e \in Emojis : Quiet /\ on_raw_reaction_add("m1", e)
    \/ \E e \in Emojis : inflight = {} /\ on_raw_reaction_remove_event("m1", e)
    \/ Step

SpecSettings == InitSettings /\ [][NextSettings]_vars

----------------------------------------------------------------------------
(* Binding Store (src/reactionroles_storage.py, src/database.py,           *)
(* src/config.py:14-15).  The cog never constructs the storage object and  *)
(* nothing in the repository calls db.connect(): the actions below are the *)
(* public methods of the two classes, called by a user of the module.      *)
(* store.data is the dict of the JSON backend with store.same telling      *)
(* which guild keys hold one and the same dict object, store.file the JSON *)
(* file, store.docs the 'reaction_roles' collection in insertion order.    *)

Guilds == {"g1", "g2"}
StoreMessageIds == {"m1", "m2"}

\* the message documents handed to the store
StoreDocs == {ConfigureConfig["m1"], ConfigureConfig["m2"]}

\* at most this many documents are in the collection
MaxDocs == 3
\* at most this many calls of set_guild_data are suspended at the same time
MaxWrites == 2
\* at most this many calls are made on the storage and the database object
MaxCalls == 4
\* at most this many calls are suspended in the one database call they make
MaxWaiting == 2

Document(g, m, d) == [guild_id |-> g, message_id |-> m, data |-> d]

\* the positions of the documents matching {'guild_id': g, 'message_id': m}
Matches(docs, g, m) ==
    {i \in 1..Len(docs) : docs[i].guild_id = g /\ docs[i].message_id = m}

\* the first of these positions: the document a *_one call acts on
FirstMatch(docs, g, m) ==
    CHOOSE i \in Matches(docs, g, m) : \A j \in Matches(docs, g, m) : i <= j

\* get_collection (54-58) applies `not self.db` to the Motor database object
\* that connect stored: a library whose database objects refuse truth tests
\* makes every call on an open connection raise there
CallRaises(st) == st.connected /\ ~st.db_bool

\* Database.find_one: None while not connected, else the data of the first
\* matching document
find_one(st, g, m) ==
    IF ~st.connected \/ Matches(st.docs, g, m) = {} THEN None
    ELSE {st.docs[FirstMatch(st.docs, g, m)].data}

\* Database.update_one with upsert=True: nothing while not connected, else
\* $set on the first matching document, or a new document at the end
update_one(st, g, m, d) ==
    IF ~st.connected THEN st.docs
    ELSE IF Matches(st.docs, g, m) = {} THEN Append(st.docs, Document(g, m, d))
    ELSE [st.docs EXCEPT ![FirstMatch(st.docs, g, m)] = Document(g, m, d)]

\* Database.delete_one: nothing while not connected, else the first matching
\* document is removed
delete_one(st, g, m) ==
    IF ~st.connected \/ Matches(st.docs, g, m) = {} THEN st.docs
    ELSE LET i == FirstMatch(st.docs, g, m)
         IN SubSeq(st.docs, 1, i - 1) \o SubSeq(st.docs, i + 1, Len(st.docs))

\* Database.find_many: the documents of the guild in the order of the
\* collection; nothing while not connected
find_many(st, g) ==
    IF ~st.connected THEN <<>>
    ELSE SelectSeq(st.docs, LAMBDA x : x.guild_id = g)

\* Database.delete_many: nothing while not connected
delete_many(st, g) ==
    IF ~st.connected THEN st.docs
    ELSE SelectSeq(st.docs, LAMBDA x : x.guild_id # g)

\* Database.insert_one: nothing while not connected
insert_one(st, g, m, d) ==
    IF ~st.connected THEN st.docs ELSE Append(st.docs, Document(g, m, d))

\* the loop of get_guild_data (49-53): a document whose message_id is falsy
\* is passed over, a later document of a message id replaces an earlier one
RECURSIVE GuildDict(_)
GuildDict(results) ==
    IF results = <<>> THEN <<>>
    ELSE LET doc == results[Len(results)]
             before == GuildDict(SubSeq(results, 1, Len(results) - 1))
         IN IF doc.message_id = "" THEN before
            ELSE WithKey(before, doc.message_id, doc.data)

\* the guild keys of self.data that hold the dict object guild g holds
SameObject(st, g) ==
    IF \E c \in st.same : g \in c THEN CHOOSE c \in st.same : g \in c ELSE {g}

\* the sharing after guild g lets go of the object it holds
LetGo(same, g) == {c \ {g} : c \in {c \in same : Cardinality(c \ {g}) > 1}}

\* the sharing after guild g is given the object guild h holds
Joined(same, g, h) ==
    IF g = h THEN same
    ELSE LET rest == LetGo(same, g)
             c == IF \E k \in rest : h \in k THEN CHOOSE k \in rest : h \in k ELSE {h}
         IN (rest \ {c}) \cup {c \cup {g}}

\* self.data after the dict object that guild g holds became gd
Mutated(st, g, gd) ==
    [h \in DOMAIN st.data |-> IF h \in SameObject(st, g) THEN gd ELSE st.data[h]]

\* self.data.get(guild_id, {}).get(message_id)
DataGet(data, g, m) ==
    IF g \in DOMAIN data /\ m \in DOMAIN data[g] THEN {data[g][m]} ELSE None

\* what get_message_data returns on a store
GetMessageData(st, g, m) ==
    IF st.use_db THEN find_one(st, g, m) ELSE DataGet(st.data, g, m)

\* what get_guild_data returns on a store
GetGuildData(st, g) ==
    IF st.use_db THEN GuildDict(find_many(st, g))
    ELSE IF g \in DOMAIN st.data THEN st.data[g] ELSE <<>>

\* the last thing that happened on the storage object: a call returned
\* (with what a get returned) or raised, or it was suspended in a database
\* call (a name ending in _begin); `task` is the suspended call that
\* returned or was cancelled
StoreOp(name, g, m, doc, result) ==
    [name |-> name, guild_id |-> g, message_id |-> m, doc |-> doc, result |-> result,
     task |-> None]

\* a call is made on the storage or the database object
CanCall == store.calls < MaxCalls

\* one more call can be suspended in its database call
CanWait == Cardinality(store.waiting) < MaxWaiting

\* a call that is suspended in the one database call it awaits (database.py
\* 32, 65, 78, 94, 102, 110): the collection has answered, the call returns
\* this result in a later turn of the event loop; `alone` tells that no
\* other call wrote to the guild since
Waiting(id, name, g, m, doc, result) ==
    [id |-> id, name |-> name, guild_id |-> g, message_id |-> m, doc |-> doc,
     result |-> result, alone |-> TRUE]

\* the suspended calls on guild g are no longer the only writers of the
\* guild since they began
Disturbed(tasks, g) ==
    {IF w.guild_id = g THEN [w EXCEPT !.alone = FALSE] ELSE w : w \in tasks}

\* the store after a call wrote these documents for guild g
Stored(st, docs, g) ==
    [st EXCEPT !.docs = docs, !.writing = Disturbed(@, g), !.waiting = Disturbed(@, g)]

\* the store after a call: the call is counted and noted
Called(st, op) == [st EXCEPT !.op = op, !.calls = @ + 1]

\* what is noted when a call is suspended
Begun == [connect |-> "connect_begin", get |-> "get_begin", set |-> "set_begin",
          delete |-> "delete_begin", get_guild |-> "get_guild_begin",
          delete_guild |-> "delete_guild_begin"]

\* the store after a call was suspended in its database call
Suspended(st, name, g, m, doc, result) ==
    Called([st EXCEPT !.waiting = @ \cup
               {Waiting(CHOOSE i \in 1..MaxWaiting : \A t \in st.waiting : t.id # i,
                        name, g, m, doc, result)}],
           StoreOp(Begun[name], g, m, doc, None))

\* what is noted when a suspended call returns
Returned(t) ==
    [StoreOp(t.name, t.guild_id, t.message_id, t.doc, t.result) EXCEPT !.task = {t}]

\* a call on the document backend that raised in get_collection
Raised(g, m) ==
    /\ store' = Called(store, StoreOp("raised", g, m, None, None))
    /\ UNCHANGED engine

\* a call of the document backend goes as far as the collection: the
\* connection is open and its database object can be truth-tested
Reaches(st) == st.use_db /\ st.connected /\ st.db_bool

----------------------------------------------------------------------------
(* Database.connect and Database.close (src/database.py:20-47) *)

\* without a MongoDB URI connect returns False; with one the client is made
\* (27) and the call is suspended in the ping (32)
connect ==
    /\ CanCall
    /\ IF ~store.use_db
       THEN store' = Called(store, StoreOp("connect", "", "", None, None))
       ELSE /\ CanWait
            /\ store' = Suspended([store EXCEPT !.client = TRUE],
                                  "connect", "", "", None, None)
    /\ UNCHANGED engine

\* the ping answers: the connection is open (33-34), or the ping failed and
\* the connection is marked closed (37-39)
connect_return ==
    /\ \E t \in store.waiting : \E ok \in BOOLEAN :
          /\ t.name = "connect"
          /\ store' = [store EXCEPT !.connected = ok, !.op = Returned(t),
                                    !.waiting = @ \ {t}]
    /\ UNCHANGED engine

\* close: with a client the connection is marked closed
close ==
    /\ CanCall
    /\ store' = Called(IF store.client THEN [store EXCEPT !.connected = FALSE] ELSE store,
                       StoreOp("close", "", "", None, None))
    /\ UNCHANGED engine

----------------------------------------------------------------------------
(* The methods of ReactionRolesStorage.  On the JSON backend and on the     *)
(* document backend without a connection a method reaches no await and is  *)
(* one step.  On an open connection it is suspended in the database call   *)
(* it awaits: the collection takes the call at once, the method returns in *)
(* a later step (call_return) and other calls run in between.              *)
(* set_guild_data is suspended after each database call it makes.          *)

get_message_data(g, m) ==
    /\ CanCall
    /\ IF store.use_db /\ CallRaises(store) THEN Raised(g, m)
       ELSE IF Reaches(store)
       THEN /\ CanWait
            /\ store' = Suspended(store, "get", g, m, None, find_one(store, g, m))
            /\ UNCHANGED engine
       ELSE /\ store' = Called(store, StoreOp("get", g, m, None, GetMessageData(store, g, m)))
            /\ UNCHANGED engine

\* the JSON backend makes the guild dict when there is none and stores the
\* message data in the dict object the guild key holds
set_message_data(g, m, d) ==
    /\ CanCall
    /\ IF store.use_db
       THEN IF CallRaises(store) THEN Raised(g, m)
            ELSE IF Reaches(store)
            THEN /\ CanWait
                 /\ Len(update_one(store, g, m, d)) <= MaxDocs
                 /\ store' = Suspended(Stored(store, update_one(store, g, m, d), g),
                                       "set", g, m, {d}, None)
                 /\ UNCHANGED engine
            ELSE /\ store' = Called(store, StoreOp("set", g, m, {d}, None))
                 /\ UNCHANGED engine
       ELSE LET st == IF g \in DOMAIN store.data THEN store
                      ELSE [store EXCEPT !.data = WithKey(@, g, <<>>)]
            IN /\ store' = Called([st EXCEPT !.data = Mutated(st, g, WithKey(st.data[g], m, d))],
                                  StoreOp("set", g, m, {d}, None))
               /\ UNCHANGED engine

delete_message_data(g, m) ==
    /\ CanCall
    /\ IF store.use_db
       THEN IF CallRaises(store) THEN Raised(g, m)
            ELSE IF Reaches(store)
            THEN /\ CanWait
                 /\ store' = Suspended(Stored(store, delete_one(store, g, m), g),
                                       "delete", g, m, None, None)
                 /\ UNCHANGED engine
            ELSE /\ store' = Called(store, StoreOp("delete", g, m, None, None))
                 /\ UNCHANGED engine
       ELSE /\ store' = Called(IF g \in DOMAIN store.data /\ m \in DOMAIN store.data[g]
                               THEN [store EXCEPT
                                        !.data = Mutated(store, g, WithoutKey(store.data[g], m))]
                               ELSE store,
                               StoreOp("delete", g, m, None, None))
            /\ UNCHANGED engine

\* get_guild_data, also while a set_guild_data is suspended; the JSON backend
\* returns the dict object the guild key holds
get_guild_data(g) ==
    /\ CanCall
    /\ IF store.use_db /\ CallRaises(store) THEN Raised(g, "")
       ELSE IF Reaches(store)
       THEN /\ CanWait
            /\ store' = Suspended(store, "get_guild", g, "", None,
                                  {GuildDict(find_many(store, g))})
            /\ UNCHANGED engine
       ELSE /\ store' = Called(store, StoreOp("get_guild", g, "", None,
                                              {GetGuildData(store, g)}))
            /\ UNCHANGED engine

\* delete_guild_data: delete_many, or the guild key is deleted
delete_guild_data(g) ==
    /\ CanCall
    /\ IF store.use_db
       THEN IF CallRaises(store) THEN Raised(g, "")
            ELSE IF Reaches(store)
            THEN /\ CanWait
                 /\ store' = Suspended(Stored(store, delete_many(store, g), g),
                                       "delete_guild", g, "", None, None)
                 /\ UNCHANGED engine
            ELSE /\ store' = Called(store, StoreOp("delete_guild", g, "", None, None))
                 /\ UNCHANGED engine
       ELSE /\ store' = Called([store EXCEPT !.data = [h \in DOMAIN @ \ {g} |-> @[h]],
                                             !.same = LetGo(@, g)],
                               StoreOp("delete_guild", g, "", None, None))
            /\ UNCHANGED engine

\* a call that was suspended in its database call returns what the
\* collection answered when the call was made, whatever was written or
\* closed since
call_return ==
    /\ \E t \in store.waiting :
          /\ t.name # "connect"
          /\ store' = [store EXCEPT !.op = Returned(t), !.waiting = @ \ {t}]
    /\ UNCHANGED engine

\* save_json (33-41): nothing on the document backend; else the file is
\* opened for writing and the dict dumped, an exception is logged
save_json ==
    /\ CanCall
    /\ \E io \in SaveOutcomes :
          store' = Called(IF store.use_db \/ io = "open_failed" THEN store
                          ELSE IF io = "write_failed"
                          THEN [store EXCEPT !.file = Unparsable, !.file_ok = FALSE]
                          ELSE [store EXCEPT !.file = store.data, !.file_ok = TRUE],
                          StoreOp("save", "", "", None, None))
    /\ UNCHANGED engine

\* the dicts handed to set_guild_data, as their items() in order
GuildDatas ==
    {<<>>,
     <<<<"m1", ConfigureConfig["m2"]>>>>,
     <<<<"m1", ConfigureConfig["m1"]>>, <<"m2", ConfigureConfig["m2"]>>>>,
     <<<<"m2", ConfigureConfig["m2"]>>, <<"m1", ConfigureConfig["m1"]>>>>}

\* the dict with these items
RECURSIVE DictOf(_)
DictOf(items) ==
    IF items = <<>> THEN <<>>
    ELSE WithKey(DictOf(SubSeq(items, 1, Len(items) - 1)),
                 items[Len(items)][1], items[Len(items)][2])

\* a set_guild_data that is suspended in a database call: what
\* get_guild_data gave when it began, the dict it writes, the items
\* still to insert, and whether no other call wrote to the guild since
Writing(id, g, old, items) ==
    [id |-> id, guild_id |-> g, old |-> old, new |-> DictOf(items), rest |-> items,
     alone |-> TRUE]

\* set_guild_data(g, gd) up to its first suspension, gd being a new dict
\* with these items or, when `held` names a guild, the dict object that
\* get_guild_data returned for that guild.  The JSON backend assigns the
\* object to the guild key and returns.  The document backend without a
\* connection runs through delete_many and every insert_one without a
\* suspension and leaves nothing stored; on an open connection it is
\* suspended in delete_many.
set_guild_data(g, items, held) ==
    /\ CanCall
    /\ held = "" \/ (~store.use_db /\ held \in DOMAIN store.data /\ items = <<>>)
    /\ IF ~store.use_db
       THEN /\ store' = Called(
                  IF held \in DOMAIN store.data
                  THEN [store EXCEPT !.data = WithKey(@, g, @[held]),
                                     !.same = Joined(@, g, held)]
                  ELSE [store EXCEPT !.data = WithKey(@, g, DictOf(items)),
                                     !.same = LetGo(@, g)],
                  StoreOp("set_guild", g, "", None, None))
            /\ UNCHANGED engine
       ELSE IF CallRaises(store) THEN Raised(g, "")
       ELSE IF ~store.connected
       THEN /\ store' = Called(store, StoreOp("set_guild", g, "", None, None))
            /\ UNCHANGED engine
       ELSE /\ Cardinality(store.writing) < MaxWrites
            /\ LET id == CHOOSE i \in 1..MaxWrites : \A w \in store.writing : w.id # i
                   st == Stored(store, delete_many(store, g), g)
               IN store' = Called([st EXCEPT
                      !.writing = @ \cup {Writing(id, g, GetGuildData(store, g), items)}],
                      StoreOp("set_guild_begin", g, "", None, None))
            /\ UNCHANGED engine

\* a suspended set_guild_data goes on after its database call: it returns
\* after the last item, also when the connection was closed meanwhile, as
\* insert_one then returns at once for every item left; else it is
\* suspended in the next insert_one
set_guild_data_step ==
    /\ \E w \in store.writing :
          IF w.rest = <<>> \/ ~store.connected
          THEN store' = [store EXCEPT
                   !.op = StoreOp("set_guild", w.guild_id, "", None, None),
                   !.writing = @ \ {w}]
          ELSE /\ Len(store.docs) < MaxDocs
               /\ store' = [store EXCEPT
                     !.docs = insert_one(store, w.guild_id, w.rest[1][1], w.rest[1][2]),
                     !.op = StoreOp("insert", w.guild_id, w.rest[1][1], None, None),
                     !.writing = Disturbed(@ \ {w}, w.guild_id)
                                    \cup {[w EXCEPT !.rest = Tail(@)]},
                     !.waiting = Disturbed(@, w.guild_id)]
    /\ UNCHANGED engine

\* the task running set_guild_data is cancelled, or the database call it is
\* suspended in raises
set_guild_data_abort ==
    /\ \E w \in store.writing :
          store' = [store EXCEPT
              !.op = [StoreOp("abort", w.guild_id, "", None, None) EXCEPT !.task = {w}],
              !.writing = @ \ {w}]
    /\ UNCHANGED engine

\* what open() for reading does when the process starts
LoadOutcomes == {"loaded", "open_failed"}

\* self.data after _load_json (24-31): the file's content when the file is
\* there, opens and parses, else the empty dict of __init__ (19)
LoadJson(st, io) ==
    IF ~st.use_db /\ st.file_ok /\ io = "loaded" THEN st.file ELSE <<>>

\* the process is started again: __init__ loads the JSON file unless the
\* document backend is used; the database object is new and not connected,
\* the calls that were suspended are gone, the collection is as it was
StorageRestart ==
    /\ CanCall
    /\ \E io \in LoadOutcomes :
          store' = Called([store EXCEPT
              !.data = LoadJson(store, io),
              !.same = {},
              !.client = FALSE,
              !.connected = FALSE,
              !.writing = {},
              !.waiting = {}],
              StoreOp("init", "", "", None, None))
    /\ UNCHANGED engine

\* the storage object after __init__: with a MongoDB URI the document store
\* is used, db.connect() has not been called and the collection is empty;
\* without one the JSON file, if there is one, is loaded
InitStore ==
    /\ InitEngine
    /\ \E use_db \in BOOLEAN, db_bool \in BOOLEAN, io \in LoadOutcomes :
          /\ ~use_db => db_bool
          /\ \E f \in IF use_db THEN {<<>>}
                      ELSE {<<>>, [g \in {"g1"} |-> [m \in {"m1"} |-> ConfigureConfig["m1"]]]} :
                LET st == [StoreIdle EXCEPT !.use_db = use_db, !.db_bool = db_bool,
                                            !.file = f]
                IN store = [st EXCEPT !.data = LoadJson(st, io)]

NextStore ==
    \/ connect
    \/ connect_return
    \/ close
    \/ \E g \in Guilds, m \in StoreMessageIds : get_message_data(g, m)
    \/ \E g \in Guilds, m \in StoreMessageIds, d \in StoreDocs : set_message_data(g, m, d)
    \/ \E g \in Guilds, m \in StoreMessageIds : delete_message_data(g, m)
    \/ \E g \in Guilds : get_guild_data(g)
    \/ \E g \in Guilds, items \in GuildDatas : set_guild_data(g, items, "")
    \/ \E g \in Guilds, held \in Guilds : set_guild_data(g, <<>>, held)
    \/ set_guild_data_step
    \/ set_guild_data_abort
    \/ \E g \in Guilds : delete_guild_data(g)
    \/ call_return
    \/ save_json
    \/ StorageRestart

\* the calls a user of the storage module can make, in any order: on an
\* open connection each call is suspended in its database calls and other
\* calls begin and return meanwhile
SpecStore == InitStore /\ [][NextStore]_vars

----------------------------------------------------------------------------
(* Properties of the Role Assignment Engine.  `last` describes the handler *)
(* that produced the current state, so a property of one activation is a   *)
(* predicate over `last` and the current state.                            *)

\* the handlers that are select activations
Selects == {"reaction_add", "button", "menu"}

\* the handlers that are deselect activations
Deselects == {"reaction_remove", "reaction_remove_event"}

\* the outcomes in which a gate turned the activation down
Rejections == {"missing_required_role", "cap_reached"}

\* the message entry the last handler was aimed at
LastMessage == reaction_roles[last.message_id]

\* the last handler was a select activation aimed at a stored message
LastIsSelect == last.op \in Selects /\ last.message_id \in DOMAIN reaction_roles

\* the bindings of one category
CategoryBindings(md, c) == SeqToSet(md.categories[c].roles)

\* every binding of a message entry, flat or inside a category
Bindings(md) ==
    {md.triggers[e] : e \in DOMAIN md.triggers}
        \cup UNION {CategoryBindings(md, c) : c \in DOMAIN md.categories}

\* the roles some binding of the guild binds in exclusive mode
ExclusiveRoles(cfg) ==
    {b.role_id : b \in {b \in UNION {Bindings(cfg[m]) : m \in DOMAIN cfg} :
                            b.mode = "exclusive"}}

\* the last select was aimed at a unique-mode trigger
LastIsUniqueSelect ==
    /\ LastIsSelect
    /\ IF last.op = "menu"
       THEN \E b \in CategoryBindings(LastMessage, last.key) : b.mode = "unique"
       ELSE last.mode = "unique"

\* the unique scope of the last select: the category for a menu, else the message
LastScope ==
    IF last.op = "menu" THEN CategoryRoles(LastMessage, last.key)
                        ELSE FlatRoles(LastMessage)

\* C1: unique invariant.  When a member holding at most one role of a unique
\* scope selects a unique-mode trigger of that scope, the member holds at
\* most one role of the scope afterwards.
C1_UniqueInvariant ==
    (LastIsUniqueSelect /\ Cardinality(last.before \cap LastScope) <= 1)
        => Cardinality(member_roles \cap LastScope) <= 1

\* a holder of an exclusive-mode role holds no other bound role of the guild
ExclusiveInvariant(held) ==
    \A r \in held \cap ExclusiveRoles(reaction_roles) :
        held \cap GuildBoundRoles(reaction_roles) = {r}

\* C2: exclusive invariant.  Every accepted select or deselect activation
\* that starts in a state where a holder of an exclusive-mode role holds no
\* other bound role of the guild ends in such a state.
C2_ExclusiveInvariant ==
    (/\ last.op \in Selects \cup Deselects
     /\ last.outcome = "applied"
     /\ ExclusiveInvariant(last.before))
        => ExclusiveInvariant(member_roles)

\* number of roles bound by a message entry that the member holds
HeldBound(md, held) == Cardinality(held \cap BoundRoles(md))

\* C3: cap invariant.  On a message of any style with max_roles = N, an
\* accepted select by a member holding at most N of the message's bound
\* roles leaves the member with at most N of them.
C3_CapInvariant ==
    (/\ LastIsSelect
     /\ last.outcome = "applied"
     /\ LastMessage.max_roles # None
     /\ HeldBound(LastMessage, last.before) <= ValueOf(LastMessage.max_roles))
        => HeldBound(LastMessage, member_roles) <= ValueOf(LastMessage.max_roles)

\* C4: a rejected select is state-preserving.  The rejecting handler leaves
\* the member's roles as they were, and so does the deselect event caused by
\* the engine withdrawing the rejected member's reaction.
C4_RejectedPreserves ==
    /\ (last.op \in Selects /\ last.outcome \in Rejections)
          => member_roles = last.before
    /\ (last.op = "reaction_remove_event" /\ last.cause = "rejected")
          => member_roles = last.before

\* the last handler was an accepted select of a normal-mode trigger of the
\* given styles (the handler tells the style: reaction events or button clicks)
AcceptedNormalSelect(l, ops) ==
    /\ l.op \in ops
    /\ l.mode = "normal"
    /\ l.outcome = "applied"

\* two handlers aimed at the same trigger
SameTrigger(l1, l2) ==
    l1.op = l2.op /\ l1.message_id = l2.message_id /\ l1.key = l2.key

LastIsExclusiveSelectOf(R) ==
    /\ LastIsSelect
    /\ CASE last.op = "reaction_add" ->
              /\ last.mode = "exclusive"
              /\ LastMessage.triggers[last.key].role_id = R
         [] last.op = "button" ->
              /\ last.mode = "exclusive"
              /\ last.key = R
         [] OTHER ->
              /\ last.values = {R}
              /\ \E b \in CategoryBindings(LastMessage, last.key) :
                    b.role_id = R /\ b.mode = "exclusive"

\* C6: exclusive select is guild-wide and style-independent.  After a
\* select of an exclusive-mode trigger bound to an existing role R the
\* member did not hold, which no gate turned down, the bound roles of the
\* guild the member holds are exactly {R}.
C6_ExclusiveSelect ==
    \A R \in guild_roles :
        (/\ LastIsExclusiveSelectOf(R)
         /\ R \notin last.before
         /\ last.outcome \notin Rejections)
            => member_roles \cap GuildBoundRoles(reaction_roles) = {R}

\* C7: the required-role gate covers all activations.  A select on a
\* message with a non-empty required_roles by a member holding none of them
\* leaves the member's roles as they were.
C7_RequiredGate ==
    (/\ LastIsSelect
     /\ LastMessage.required_roles # NoRoles
     /\ last.before \cap SeqToSet(LastMessage.required_roles) = {})
        => member_roles = last.before

\* the last handler was a deselect of a trigger the store binds
LastIsBoundDeselect ==
    /\ last.op \in Deselects
    /\ last.message_id \in DOMAIN reaction_roles
    /\ last.key \in DOMAIN LastMessage.triggers

LastCategoryExisting == CategoryRoles(LastMessage, last.key) \cap guild_roles

\* the last menu submission newly added an exclusive-mode role
LastMenuAddsExclusive ==
    \E b \in CategoryBindings(LastMessage, last.key) :
        /\ b.mode = "exclusive"
        /\ b.role_id \in (last.values \cap guild_roles) \ last.before

\* C9: menu multi-select.  After a submission of the desired set D for one
\* category the member's roles among the category's existing roles are D;
\* when no exclusive-mode role is newly added, every other role is unchanged.
C9_MenuMultiSelect ==
    (/\ last.op = "menu"
     /\ last.message_id \in DOMAIN reaction_roles
     /\ last.key \in DOMAIN LastMessage.categories)
        => /\ member_roles \cap LastCategoryExisting = last.values \cap LastCategoryExisting
           /\ ~LastMenuAddsExclusive
                 => member_roles \ LastCategoryExisting = last.before \ LastCategoryExisting

\* no role and no message was deleted while the last handler ran
LastUndisturbed == last.was.roles = guild_roles /\ last.was.messages = channel_messages

\* C10 as stated: verify is read-only.  A run of verify leaves the in-memory
\* configuration and the file as they were.
C10_VerifyReadOnly ==
    last.op = "verify" => (reaction_roles = last.was.cfg /\ file = last.was.file)

\* C11: reconciliation fixed point.  A cleanup that runs immediately after a
\* cleanup, with no role and no message deleted since the first one started,
\* leaves the configuration as it was and reports zero removed messages and
\* zero removed bindings.
C11_CleanupFixedPoint ==
    (/\ last.op = "cleanup"
     /\ last.prev.op = "cleanup"
     /\ last.prev.roles = guild_roles
     /\ last.prev.messages = channel_messages)
        => /\ reaction_roles = last.was.cfg
           /\ last.outcome = "done"
                 => /\ last.report.removed_messages = 0
                    /\ last.report.removed_roles = 0

\* a cleanup that found nothing to remove in a store the cleanup before it
\* had reduced
C11_Witness ==
    /\ last.op = "cleanup"
    /\ last.prev.op = "cleanup"
    /\ last.prev.roles = guild_roles
    /\ last.prev.messages = channel_messages
    /\ last.outcome = "done"
    /\ last.report.removed_messages = 0
    /\ last.report.removed_roles = 0
    /\ last.report.initial_messages < Cardinality(MessageIds)
    /\ file = Dump(reaction_roles)

\* every binding of the store, flat or inside a category
GuildBindings(cfg) == UNION {Bindings(cfg[m]) : m \in DOMAIN cfg}

\* C12: after a cleanup during which no role and no message was deleted,
\* every binding that remains in the guild's configuration, flat or inside a
\* menu category, binds a role that exists.
C12_CleanupLeavesLiveBindings ==
    (last.op = "cleanup" /\ LastUndisturbed)
        => \A b \in GuildBindings(reaction_roles) : b.role_id \in guild_roles

\* a cleanup that removed the binding of a deleted role and kept another
C12_Witness ==
    /\ last.op = "cleanup"
    /\ LastUndisturbed
    /\ last.outcome = "done"
    /\ last.report.removed_roles > 0
    /\ GuildBindings(reaction_roles) # {}
    /\ guild_roles # Roles

\* C13: cleanup keeps the configuration of a message that no longer exists.
\* After a cleanup the entry of every stored message that is missing on the
\* platform can still be read, from memory or from the file, as it was.
C13_CleanupKeepsMissing ==
    last.op = "cleanup"
        => \A m \in DOMAIN last.was.cfg \ channel_messages :
              \/ m \in DOMAIN reaction_roles /\ reaction_roles[m] = last.was.cfg[m]
              \/ m \in DOMAIN file /\ file[m] = Dump(last.was.cfg)[m]

\* C14: verify reports exactly the drift.  The number of issues verify
\* reports is the number of missing messages plus the number of bindings of
\* a deleted role.
C14_VerifyReportsDrift ==
    (last.op = "verify" /\ last.outcome # "empty")
        => last.report.issues_found =
              last.report.missing_messages + last.report.missing_roles

----------------------------------------------------------------------------
(* Properties of the Dispatch Registrar and of the configuration commands  *)

\* C15: when the startup registration has run over the persisted
\* configuration, every button of every button-style entry that is itself
\* well formed and every non-empty
\* category of every menu-style entry has its handler in the view store,
\* also when another entry of the store raises during its own registration
C15_RegistrationComplete ==
    (last.op = "register" /\ file = Dump(reaction_roles))
        => \A m \in DOMAIN reaction_roles :
              ~ViewRaises(reaction_roles[m])
                  => MessageComponents(reaction_roles[m], m) \subseteq views

\* the message on which the last command placed components
LastPlacedOn ==
    IF last.op = "clone" /\ last.outcome = "cloned" THEN {last.key}
    ELSE IF last.op = "remove" /\ last.outcome = "removed" THEN {last.message_id}
    ELSE IF last.op = "add_menu_role" /\ last.outcome = "added" THEN {last.message_id}
    ELSE {}

\* the custom_ids the startup registration derives for one entry of the file
DerivedIds(m) == CustomIds(register_persistent_views(file, <<m>>))

\* C17: when a command has placed components on a message and the
\* configuration is persisted, the custom_ids the components were created
\* with are the custom_ids the startup registration derives from the
\* persisted entry of that message
C17_RestartRerouting ==
    \A m \in LastPlacedOn :
        (file = Dump(reaction_roles) /\ m \in channel_messages)
            => components[m] = DerivedIds(m)

\* the binding slots of a message entry: its emoji keys and the positions
\* of its category lists
TriggerSlots(md) ==
    {<<"emoji", e>> : e \in DOMAIN md.triggers}
    \cup UNION {{<<c, i>> : i \in 1..Len(md.categories[c].roles)} :
                   c \in DOMAIN md.categories}

SlotRole(md, s) ==
    IF s[1] = "emoji" THEN md.triggers[s[2]].role_id
    ELSE md.categories[s[1]].roles[s[2]].role_id

\* C18: after any sequence of configuration commands no role id is bound by
\* two bindings of one message entry
C18_RoleUniquePerMessage ==
    \A m \in DOMAIN reaction_roles :
        \A s, t \in TriggerSlots(reaction_roles[m]) :
            s # t => SlotRole(reaction_roles[m], s) # SlotRole(reaction_roles[m], t)

\* C16: after a process start an interaction on a component of a configured
\* message is dispatched only once the startup registration has completed
C16_RegistrationPrecedesDispatch ==
    last.op \in {"button", "menu", "interaction"} => phase = "registered"

----------------------------------------------------------------------------
(* Properties of persistence *)

\* the last handler's write to the file failed
LastWriteFailed ==
    \/ last.op = "save_task" /\ last.outcome = "failed"
    \/ last.op \in {"remove", "settings", "edit"} /\ last.cause = "save_failed"

\* the file holds the in-memory configuration
Persisted ==
    file_parses /\ file = Dump(reaction_roles) /\ file_order = msg_order

\* C19: a write that fails leaves the in-memory configuration as it is (the
\* change of the command that tried to save stays in memory), and while the
\* periodic save keeps running and writes succeed again, a file that
\* differs from the in-memory configuration or cannot be read becomes equal
\* to it, also for changes no command has written
C19_EventualPersistence ==
    /\ [][LastWriteFailed'
            => /\ last'.op = "save_task" => reaction_roles' = reaction_roles
               /\ last'.op = "remove"
                    => reaction_roles' =
                          [last'.was.cfg EXCEPT ![last'.message_id] =
                              DelTrigger(@, last'.key)]
               /\ last'.op = "settings"
                    => reaction_roles' =
                          WithRequiredRole(
                              WithMaxRoles(last'.was.cfg, last'.message_id, last'.values),
                              last'.message_id, last'.role_id)
               /\ last'.op = "edit" => reaction_roles' = reaction_roles]_vars
    /\ (~Persisted) ~> Persisted

\* the periodic save has written a configuration holding a binding that
\* add_reaction_role stored, whose own save never runs
C19_Witness ==
    /\ last.op = "save_task"
    /\ last.outcome = "saved"
    /\ Persisted
    /\ BareCount(file) > 0

----------------------------------------------------------------------------
(* Properties of the Binding Store *)

\* the (guild_id, message_id) pairs other than the one the last call named
OtherKeys == {k \in Guilds \X StoreMessageIds :
                 k # <<store.op.guild_id, store.op.message_id>>}

\* the call whose return the store notes was not suspended, or it returns
\* on the open connection and no other call wrote to its guild since it
\* was made
ReturnsUndisturbed(st) ==
    \/ st.op.task = None
    \/ st.connected /\ \A t \in st.op.task : t.alone

\* C20: in either backend, after set_message_data(g, m, d) has returned a
\* get_message_data(g, m) returns d, after delete_message_data(g, m) it
\* returns nothing, and neither call, when it is made, changes what is
\* stored under any other (guild_id, message_id)
C20_StoreRoundTrip ==
    [][/\ (store'.op.name = "set" /\ ReturnsUndisturbed(store'))
            => GetMessageData(store', store'.op.guild_id, store'.op.message_id)
                  = store'.op.doc
       /\ (store'.op.name = "delete" /\ ReturnsUndisturbed(store'))
            => GetMessageData(store', store'.op.guild_id, store'.op.message_id) = None
       /\ (/\ store'.op.name \in {"set", "delete", "set_begin", "delete_begin"}
           /\ store'.calls # store.calls)
            => \A k \in OtherKeys' :
                  GetMessageData(store', k[1], k[2]) = GetMessageData(store, k[1], k[2])]_vars

----------------------------------------------------------------------------
(* Properties of the gates and of failing lookups *)

\* the role the last reaction or button select was aimed at
LastTargetRole ==
    IF last.op = "button" THEN last.key ELSE LastMessage.triggers[last.key].role_id

\* C21: the cap check exempts the held role.  A select by reaction or by
\* button of a trigger bound to an existing role, on a message with a
\* max_roles of one or more, is turned down with cap_reached exactly when
\* the member holds at least max_roles of the message's bound roles and does
\* not hold the trigger's role.
C21_CapExemptsHeld ==
    (/\ last.op \in {"reaction_add", "button"}
     /\ last.message_id \in DOMAIN reaction_roles
     /\ Truthy(LastMessage.max_roles)
     /\ LastMessage.required_roles = NoRoles
     /\ LastTargetRole \in guild_roles)
        => (last.outcome = "cap_reached"
              <=> /\ HeldBound(LastMessage, last.before) >= ValueOf(LastMessage.max_roles)
                  /\ LastTargetRole \notin last.before)

\* the emoji keys of the registered buttons of the last click's message
\* that carry the clicked role
LastButtonEmojis ==
    {b.emoji : b \in {b \in views : /\ b.kind = "button"
                                    /\ b.message_id = last.message_id
                                    /\ b.role_id = last.key}}

\* the store binds the trigger of the last reaction event or click: the
\* emoji is a key of the message entry; for a click, the button's emoji is
\* a key or some key binds the button's role
LastTriggerBound ==
    /\ last.message_id \in DOMAIN reaction_roles
    /\ IF last.op = "button"
       THEN \/ LastButtonEmojis \cap DOMAIN LastMessage.triggers # {}
            \/ last.key \in FlatRoles(LastMessage)
       ELSE last.key \in DOMAIN LastMessage.triggers

\* C22: a reaction event or a click whose trigger the store does not bind on
\* the target message (the binding was removed or the entry was deleted
\* while the button is still registered) leaves the member's roles as they
\* were.
C22_MissingBindingRejected ==
    (last.op \in {"reaction_add", "reaction_remove", "button"} /\ ~LastTriggerBound)
        => member_roles = last.before

\* C23: orphaned bindings are excluded from resolution.  A reaction or a
\* click on a trigger whose role no longer exists in the guild leaves the
\* member's roles as they were, whatever the mode of the trigger, and so does
\* a menu submission that selects only options whose role no longer exists:
\* no role is added and none is removed.
C23_OrphansExcluded ==
    /\ (/\ last.op \in {"reaction_add", "button"}
        /\ last.message_id \in DOMAIN reaction_roles
        /\ LastTargetRole \notin guild_roles)
          => member_roles = last.before
    /\ (/\ last.op = "menu"
        /\ last.values # {}
        /\ last.values \cap guild_roles = {})
          => member_roles = last.before

\* C24: independent mutation failures.  After a reaction or a click on a
\* unique- or exclusive-mode trigger that no gate turned down, the member
\* holds the trigger's role when the bot may manage it and the member did
\* not hold it before, also when removing a conflicting role failed.
C24_IndependentFailures ==
    (/\ last.op \in {"reaction_add", "button"}
     /\ last.message_id \in DOMAIN reaction_roles
     /\ last.mode \in {"unique", "exclusive"}
     /\ last.outcome \notin Rejections
     /\ LastTargetRole \in guild_roles
     /\ Manageable(LastTargetRole)
     /\ LastTargetRole \notin last.before)
        => LastTargetRole \in member_roles

----------------------------------------------------------------------------
(* Properties of reconciliation *)

\* C25: cleanup only removes what is unusable.  A cleanup keeps the entry of
\* every stored message that exists on the platform, also a menu entry and
\* an entry without bindings, and in it every binding, flat or inside a
\* category, whose role exists.
C25_CleanupOnlyUnusable ==
    last.op = "cleanup"
        => \A m \in DOMAIN last.was.cfg \cap channel_messages :
              /\ m \in DOMAIN reaction_roles
              /\ \A b \in Bindings(last.was.cfg[m]) :
                    b.role_id \in guild_roles => b \in Bindings(reaction_roles[m])

\* the binding slots of a message entry, flat or inside a category, whose
\* role no longer exists
OrphanSlots(md) == {s \in TriggerSlots(md) : SlotRole(md, s) \notin guild_roles}

\* the categories of a message entry whose role list is empty
EmptyCategories(md) == {c \in DOMAIN md.categories : md.categories[c].roles = <<>>}

\* the stored messages that exist on the platform
FoundMessages(cfg) == DOMAIN cfg \cap channel_messages

\* the orphaned bindings and the empty categories of the stored messages
\* that exist on the platform
DriftInFound(cfg) ==
    SumOver(FoundMessages(cfg),
            [m \in FoundMessages(cfg) |->
                Cardinality(OrphanSlots(cfg[m])) + Cardinality(EmptyCategories(cfg[m]))])

\* C26: verify's report is complete.  The number of missing roles a run of
\* verify reports, during which no role and no message is deleted, is at
\* least the number of bindings of a deleted role, those inside menu
\* categories included, plus the number of empty categories, over the stored
\* messages that exist on the platform.
C26_VerifyReportComplete ==
    (last.op = "verify" /\ last.outcome # "empty" /\ LastUndisturbed)
        => last.report.missing_roles >= DriftInFound(last.was.cfg)

----------------------------------------------------------------------------
(* Properties of the component identities *)

\* the (message, trigger key) and (message, category id) pairs of the store
\* for which the registration builds a component
ComponentPairs(cfg) ==
    {<<m, e>> : m \in {m \in DOMAIN cfg : StyleOf(cfg[m]) = "buttons"}, e \in Emojis}
    \cup {<<m, c>> : m \in {m \in DOMAIN cfg : StyleOf(cfg[m]) = "menu"}, c \in CategoryIds}

PairInStore(cfg, p) ==
    IF StyleOf(cfg[p[1]]) = "buttons"
    THEN p[2] \in DOMAIN cfg[p[1]].triggers /\ IsEntry(cfg[p[1]].triggers[p[2]])
    ELSE p[2] \in DOMAIN cfg[p[1]].categories /\ cfg[p[1]].categories[p[2]].roles # <<>>

\* the custom_id the component of a pair is constructed with
IdentityOf(cfg, p) ==
    IF StyleOf(cfg[p[1]]) = "buttons"
    THEN RoleButton(p[2], cfg[p[1]].triggers[p[2]].role_id, p[1],
                    cfg[p[1]].triggers[p[2]].mode).custom_id
    ELSE RoleSelectMenu(p[1], p[2], cfg[p[1]].categories[p[2]].roles).custom_id

\* the trigger key or category id a registered handler was built for
KeyOf(v) == IF v.kind = "button" THEN v.emoji ELSE v.category_id

\* the handler is registered for a pair that is in the store
RegisteredInStore(v) ==
    /\ v.message_id \in DOMAIN reaction_roles
    /\ <<v.message_id, KeyOf(v)>> \in ComponentPairs(reaction_roles)
    /\ PairInStore(reaction_roles, <<v.message_id, KeyOf(v)>>)

\* C27: component identities are deterministic and distinct.  Two different
\* (message, trigger key) or (message, category id) pairs of the store never
\* have the same custom_id, and the custom_id under which a handler is
\* registered for a pair of the store is the one derived from the message
\* id and the pair's binding.
C27_IdentitiesDistinct ==
    /\ \A p, q \in ComponentPairs(reaction_roles) :
          (/\ p # q
           /\ PairInStore(reaction_roles, p)
           /\ PairInStore(reaction_roles, q))
              => IdentityOf(reaction_roles, p) # IdentityOf(reaction_roles, q)
    /\ \A v \in views :
          RegisteredInStore(v)
              => v.custom_id = IdentityOf(reaction_roles, <<v.message_id, KeyOf(v)>>)

\* the last command was a rebuild that ran to its registration pass over a
\* configuration that no handler changed since the command began and whose
\* pass had been run before: the store held every handler the pass derives
LastRebuildRepeatsPass ==
    /\ last.op = "rebuild"
    /\ last.outcome \in {"done", "raised"}
    /\ last.cause = ""
    /\ reaction_roles = last.was.cfg
    /\ register_persistent_views(reaction_roles, msg_order) \subseteq last.was.views

\* C28: registration is idempotent.  When rebuild runs the registration
\* pass again over an unchanged configuration whose pass had been run, every
\* handler the store held is still registered and routes to the same message
\* and trigger, and when the pass walks the whole configuration the store
\* holds the same handlers as before the command.  A pass that stops at an
\* entry it cannot build registers nothing for the messages after it; the
\* handlers of those messages that the command's message updates store are
\* the only ones added.
C28_RegistrationIdempotent ==
    LastRebuildRepeatsPass
        => /\ last.was.views \subseteq views
           /\ last.outcome = "done" => views = last.was.views
           /\ views \ last.was.views \subseteq
                  UNION {MessageComponents(reaction_roles[m], m) :
                            m \in DOMAIN reaction_roles \cap channel_messages}

\* a rebuild after the startup registration ran its pass over a store that
\* still held the handler of a button since removed
C28_Witness ==
    /\ LastRebuildRepeatsPass
    /\ last.outcome = "done"
    /\ phase = "registered"
    /\ register_persistent_views(reaction_roles, msg_order) # {}
    /\ \E v \in views : v \notin register_persistent_views(reaction_roles, msg_order)

\* the answers with which a command reports that it did what was asked
SuccessResponses == {"removed", "added", "created", "cloned", "updated", "edited"}

\* the last command was an add on a button message or an add_menu_role on a
\* menu message, it answered with a success response, and the message
\* exists on the platform
LastAddedTrigger ==
    /\ last.op \in {"add", "add_menu_role"}
    /\ last.outcome \in SuccessResponses
    /\ last.message_id \in DOMAIN reaction_roles \cap channel_messages
    /\ StyleOf(LastMessage) = (IF last.op = "add" THEN "buttons" ELSE "menu")

\* a registered handler that routes to the trigger the last command stored
RoutesToLastTrigger(v) ==
    /\ v.message_id = last.message_id
    /\ v.custom_id \in components[last.message_id]
    /\ IF last.op = "add"
       THEN v.kind = "button" /\ v.emoji = last.key /\ {v.role_id} = last.values
       ELSE v.kind = "menu" /\ v.category_id = last.key /\ last.values \subseteq v.options

NamesUnknown ==
    /\ last.op \in {"add", "remove", "add_menu_role", "settings", "edit"}
    /\ \/ last.message_id \notin DOMAIN last.was.cfg
       \/ /\ last.op = "remove"
          /\ last.key \notin DOMAIN last.was.cfg[last.message_id].triggers
       \/ /\ last.op = "add_menu_role"
          /\ last.key \notin DOMAIN last.was.cfg[last.message_id].categories

\* C30: configuration errors are rejected before any effect.  A command
\* that names a message that is not in the store, or a trigger or category
\* its entry does not have, leaves the configuration in memory and in the
\* file, the components on the messages and the view store as they were;
\* the store gets no new message entry.
C30_RejectedBeforeEffect ==
    NamesUnknown
        => /\ reaction_roles = last.was.cfg
           /\ file = last.was.file
           /\ components = last.was.components
           /\ views = last.was.views

----------------------------------------------------------------------------
(* Properties of failure reporting, concurrency and frames *)

\* C31: persistence failures are reported.  When the write to the file that
\* a configuration command performed failed, the command did not answer
\* with a success response.
C31_PersistFailureReported ==
    (last.op \in {"remove", "settings", "edit"} /\ last.cause = "save_failed")
        => last.outcome \notin SuccessResponses

\* the suspended calls of set_guild_data on the guild the last call named
\* that are the only writers of the guild since they began
WritesOnLastGuild ==
    {w \in store.writing : w.guild_id = store.op.guild_id /\ w.alone}

\* dict.get(key) of a guild dict
ItemOf(gd, m) == IF m \in DOMAIN gd THEN {gd[m]} ELSE None

\* C32: store writes are atomic replacements.  A get_guild_data or a
\* get_message_data that is made and returns while a set_guild_data for the
\* same guild is suspended, nothing else writing to the guild, returns the
\* complete old data or the complete new data, resp. the message's data in
\* one of the two, and when the write is aborted the store holds the
\* complete old data or the complete new data.
C32_AtomicReplace ==
    /\ (\A t \in store.op.task : t.alone)
          => \A w \in WritesOnLastGuild :
                /\ store.op.name = "get_guild" => store.op.result \subseteq {w.old, w.new}
                /\ store.op.name = "get"
                      => store.op.result \in {ItemOf(w.old, store.op.message_id),
                                              ItemOf(w.new, store.op.message_id)}
    /\ store.op.name = "abort"
          => \A w \in store.op.task :
                w.alone => GetGuildData(store, w.guild_id) \in {w.old, w.new}

\* C33: reconciliation is safe concurrently with activations.  A reaction
\* handler that resumes after a binding removal, verify or cleanup ran does
\* not end on the changed configuration entry, and unless the platform
\* refuses a call it ends with the target role added whenever it removed a
\* conflicting role.
C33_ReconcileSafe ==
    (last.op = "reaction_add" /\ last.outcome \in {"applied", "error"})
        => /\ last.cause # "dict_changed"
           /\ (last.removed # {} /\ last.cause # "platform")
                 => last.role_id \in member_roles

\* the unique scope of the last reaction or click: the roles bound by the
\* emoji keys of its message
LastFlatScope == FlatRoles(LastMessage)

\* C34: no lock across activations.  A reaction or a click on a "unique"
\* trigger that ran with no other handler suspended, and added its role,
\* leaves the member with at most one role of the message; only handlers
\* that interleave at their platform calls can leave the member with two.
C34_SerialKeepsUnique ==
    (/\ last.op \in {"reaction_add", "button"}
     /\ ~last.overlapped
     /\ last.mode = "unique"
     /\ last.outcome = "applied")
        => Cardinality(member_roles \cap LastFlatScope) <= 1

\* two interleaved handlers of unique triggers have ended and the member,
\* who held no role of the message when the last one started, holds both
C34_Witness ==
    /\ inflight = {}
    /\ last.op = "reaction_add" /\ last.outcome = "applied"
    /\ last.overlapped
    /\ \A e \in Emojis : reaction_roles["m1"].triggers[e].mode = "unique"
    /\ last.before \cap FlatRoles(reaction_roles["m1"]) = {}
    /\ FlatRoles(reaction_roles["m1"]) \subseteq member_roles

----------------------------------------------------------------------------
(* Frames of the activation handlers and of clone *)

\* the roles the last handler added to or removed from the member
ChangedRoles == (member_roles \ last.before) \cup (last.before \ member_roles)

\* the last handler was an activation of a normal-mode reaction or button
LastIsNormalTrigger ==
    /\ last.message_id \in DOMAIN reaction_roles
    /\ \/ last.op = "button" /\ last.mode = "normal"
       \/ /\ last.op \in {"reaction_add"} \cup Deselects
          /\ last.key \in DOMAIN LastMessage.triggers
          /\ LastMessage.triggers[last.key].mode = "normal"

\* C35: activation frame.  A select or deselect activation adds or removes
\* only roles bound by some trigger of the guild, and the activation of a
\* normal-mode reaction or button changes at most the role of that trigger.
C35_ActivationFrame ==
    /\ last.op \in Selects \cup Deselects => ChangedRoles \subseteq GuildBoundRoles(reaction_roles)
    /\ LastIsNormalTrigger => ChangedRoles \subseteq {LastTargetRole}

\* C36: clone isolation.  A menu role added to one message, be it a clone
\* or the source of one, leaves the in-memory entry of every other message
\* as it was.
C36_CloneIsolation ==
    (last.op = "add_menu_role" /\ last.outcome = "added")
        => \A m \in DOMAIN last.was.cfg :
              m # last.message_id => reaction_roles[m] = last.was.cfg[m]

----------------------------------------------------------------------------
(* Well-formedness of the stored configuration, and restarts *)

\* C37: the stored configuration is well-formed.  Every message entry has
\* a "settings" key and every emoji entry is a record with a role_id and a
\* mode out of normal, unique and exclusive.
C37_WellFormed ==
    \A m \in DOMAIN reaction_roles :
        /\ HasSettings(reaction_roles[m])
        /\ \A e \in DOMAIN reaction_roles[m].triggers : IsEntry(reaction_roles[m].triggers[e])

\* C38: restart preserves configuration.  A start of the process that loads
\* the file after a save that succeeded gives the in-memory configuration
\* the process had before; and no message entry of the persisted
\* configuration disappears from the file when the file is written, whether
\* the file could be loaded at the start or not.
C38_RestartPreserves ==
    [][/\ (last'.op = "restart" /\ last'.outcome = "" /\ file = Dump(reaction_roles))
             => reaction_roles' = Dump(reaction_roles)
       /\ (file_parses /\ file_parses') => DOMAIN file \subseteq DOMAIN file']_vars
====
